---- MODULE Spec2Model ----
(***************************************************************************)
(* github-commander: the configuration reader (lib/configReader.js) and    *)
(* the config-driven commands issue-labels, issue-templates,               *)
(* repository-permissions and repository-settings, which reconcile the     *)
(* live state of every repository of a GitHub organization with the        *)
(* configuration.                                                          *)
(*                                                                         *)
(* JavaScript strings are sequences of one-character strings, so that      *)
(* toLowerCase, toUpperCase and the colour pattern are computed character  *)
(* by character.  Object keys that may be missing are modelled by the      *)
(* domain of a record ('key' in object).                                   *)
(***************************************************************************)
EXTENDS Integers, Sequences, FiniteSets, TLC

VARIABLES
    arg,            \* argument of the pure function under application
    ret,            \* its result
    command,        \* the CLI command that is running
    rawConfig,      \* the document parsed from the configuration file
    config,         \* the object returned by configReader
    error,          \* the error the command terminated with
    pc,             \* position of the command
    github,         \* live state of the organization on GitHub
    allGithubRepositories, \* the repositories the command works through
    repoIndex,      \* position of asyncSequence in allGithubRepositories
    local,          \* variables of the per-repository callback
    inflight,       \* API calls started and not yet answered
    calls,          \* log of the API calls, in the order they started/ended
    failures        \* number of API calls answered with an error so far

vars == <<arg, ret, command, rawConfig, config, error, pc, github,
          allGithubRepositories, repoIndex, local, inflight, calls, failures>>

----------------------------------------------------------------------------
(* JavaScript values *)

\* null: a one-element tuple whose element is no character
NULL == <<"NULL">>

\* undefined: the value of a variable that has not been assigned
Nothing == [undefined |-> TRUE]

Has(object, key) == key \in DOMAIN object

LowerCaseLetters ==
    <<"a","b","c","d","e","f","g","h","i","j","k","l","m",
      "n","o","p","q","r","s","t","u","v","w","x","y","z">>
UpperCaseLetters ==
    <<"A","B","C","D","E","F","G","H","I","J","K","L","M",
      "N","O","P","Q","R","S","T","U","V","W","X","Y","Z">>
Digits == {"0","1","2","3","4","5","6","7","8","9"}

toLowerChar(c) ==
    IF \E i \in DOMAIN UpperCaseLetters : UpperCaseLetters[i] = c
    THEN LowerCaseLetters[CHOOSE i \in DOMAIN UpperCaseLetters : UpperCaseLetters[i] = c]
    ELSE c
toUpperChar(c) ==
    IF \E i \in DOMAIN LowerCaseLetters : LowerCaseLetters[i] = c
    THEN UpperCaseLetters[CHOOSE i \in DOMAIN LowerCaseLetters : LowerCaseLetters[i] = c]
    ELSE c

toLowerCase(s) == [i \in 1..Len(s) |-> toLowerChar(s[i])]
toUpperCase(s) == [i \in 1..Len(s) |-> toUpperChar(s[i])]

\* every spelling of s that differs from it in letter case only
CaseVariants(s) ==
    { [i \in 1..Len(s) |-> IF i \in U THEN toUpperChar(s[i]) ELSE toLowerChar(s[i])] :
        U \in SUBSET (1..Len(s)) }

\* Array.prototype.filter and Array.prototype.find on sequences
RECURSIVE SelectIndices(_, _, _)
SelectIndices(s, Test(_), i) ==
    IF i > Len(s) THEN <<>>
    ELSE (IF Test(s[i]) THEN <<i>> ELSE <<>>) \o SelectIndices(s, Test, i + 1)
Filter(s, Test(_)) == LET idx == SelectIndices(s, Test, 1) IN [k \in 1..Len(idx) |-> s[idx[k]]]
Found(s, Test(_)) == \E i \in 1..Len(s) : Test(s[i])
Find(s, Test(_)) == s[CHOOSE i \in 1..Len(s) : Test(s[i]) /\ \A j \in 1..(i - 1) : ~Test(s[j])]

RECURSIVE Flatten(_)
Flatten(ss) == IF Len(ss) = 0 THEN <<>> ELSE Head(ss) \o Flatten(Tail(ss))

SeqsUpTo(S, n) == UNION { [1..k -> S] : k \in 0..n }

----------------------------------------------------------------------------
(* Permission parser *)

none  == <<"n","o","n","e">>
read  == <<"r","e","a","d">>
pull  == <<"p","u","l","l">>
write == <<"w","r","i","t","e">>
push  == <<"p","u","s","h">>
admin == <<"a","d","m","i","n">>

Return(value) == [threw |-> FALSE, value |-> value]
Throw(message) == [threw |-> TRUE, message |-> message]

\* the parser with a default for what it does not recognise
parsePermissionString_defaultsToPull(permission) ==
    IF permission = NULL THEN Return(NULL)
    ELSE LET lowered == toLowerCase(permission) IN
         CASE lowered = none -> Return(NULL)
           [] lowered \in {write, push} -> Return(push)
           [] lowered = admin -> Return(admin)
           [] OTHER -> Return(pull)

\* the parser without the case folding
parsePermissionString_caseSensitive(permission) ==
    IF permission = NULL THEN Return(NULL)
    ELSE CASE permission = none -> Return(NULL)
           [] permission \in {read, pull} -> Return(pull)
           [] permission \in {write, push} -> Return(push)
           [] permission = admin -> Return(admin)
           [] OTHER -> Throw([kind |-> "Invalid permission", value |-> permission])

parsePermissionString(permission) ==
    IF permission = NULL THEN Return(NULL)
    ELSE LET lowered == toLowerCase(permission) IN
         CASE lowered = none -> Return(NULL)
           [] lowered \in {read, pull} -> Return(pull)
           [] lowered \in {write, push} -> Return(push)
           [] lowered = admin -> Return(admin)
           [] OTHER -> Throw([kind |-> "Invalid permission", value |-> permission])

RecognisedSpellings == {none, read, pull, write, push, admin}

UnrecognisedPermissions ==
    { <<>>, <<"r","e","a">>, <<"r","e","a","d","s">>, <<"o","w","n","e","r">>,
      <<"O","W","N","E","R">>, <<"m","a","i","n","t","a","i","n">>, <<"n","u","l","l">> }

PermissionInputs ==
    {NULL} \cup (UNION { CaseVariants(s) : s \in RecognisedSpellings }) \cup UnrecognisedPermissions

----------------------------------------------------------------------------
(* Configuration reader: validation *)

\* o with o[key] assigned
Assign(o, key, value) == [k \in DOMAIN o \cup {key} |-> IF k = key THEN value ELSE o[k]]

\* an error thrown by the reader: the breadcrumb ('where[index].field', or
\* 'where[index].teamPermissions[sub].field') and the kind of complaint
Err(where, index, sub, field, kind) ==
    [where |-> where, index |-> index, sub |-> sub, field |-> field, kind |-> kind]

\* forEach(validator): the errors of every element, in order (index from 0)
RECURSIVE ForEachErrors(_, _, _)
ForEachErrors(elements, Validator(_, _), i) ==
    IF i > Len(elements) THEN <<>>
    ELSE Validator(elements[i], i - 1) \o ForEachErrors(elements, Validator, i + 1)

IsEmptyOrMissingString(o, key) == ~Has(o, key) \/ o[key] = NULL \/ Len(o[key]) = 0

validateTeam(team, index) ==
    IF IsEmptyOrMissingString(team, "name")
    THEN <<Err("teams", index, -1, "name", "must be of type String")>>
    ELSE IF ~Has(team, "defaultPermission")
            \/ (team.defaultPermission # NULL /\ Len(team.defaultPermission) = 0)
    THEN <<Err("teams", index, -1, "defaultPermission", "must be of type String")>>
    ELSE IF parsePermissionString(team.defaultPermission).threw
    THEN <<Err("teams", index, -1, "defaultPermission", "has an invalid value")>>
    ELSE <<>>

HexCharacters ==
    {"a","b","c","d","e","f","A","B","C","D","E","F"} \cup Digits

\* color.match(/^[a-fA-F0-9]{3,6}$/)
MatchesHexColor(color) ==
    /\ Len(color) >= 3
    /\ Len(color) <= 6
    /\ \A i \in 1..Len(color) : color[i] \in HexCharacters

MaxDescriptionLength == 100

validateIssueLabel(issueLabel, index) ==
    IF IsEmptyOrMissingString(issueLabel, "name")
    THEN <<Err("issueLabels", index, -1, "name", "must be of type String")>>
    ELSE IF IsEmptyOrMissingString(issueLabel, "color")
    THEN <<Err("issueLabels", index, -1, "color", "must be of type String")>>
    ELSE IF ~MatchesHexColor(issueLabel.color)
    THEN <<Err("issueLabels", index, -1, "color", "must be a valid hex color code")>>
    ELSE IF Has(issueLabel, "description") /\ issueLabel.description = NULL
    THEN <<Err("issueLabels", index, -1, "description", "must be of type String")>>
    ELSE IF Has(issueLabel, "description") /\ Len(issueLabel.description) > MaxDescriptionLength
    THEN <<Err("issueLabels", index, -1, "description", "must not exceed 100 characters")>>
    ELSE <<>>

MinTemplateTextLength == 3
MaxTemplateTextLength == 200

validateIssueTemplate(issueTemplate, index) ==
    IF ~Has(issueTemplate, "name")
    THEN <<Err("issueTemplates", index, -1, "name", "must be of type String")>>
    ELSE IF Len(issueTemplate.name) < MinTemplateTextLength
    THEN <<Err("issueTemplates", index, -1, "name", "must be at least 3 characters long")>>
    ELSE IF Len(issueTemplate.name) > MaxTemplateTextLength
    THEN <<Err("issueTemplates", index, -1, "name", "must not exceed 200 characters")>>
    ELSE IF ~Has(issueTemplate, "description")
    THEN <<Err("issueTemplates", index, -1, "description", "must be of type String")>>
    ELSE IF Len(issueTemplate.description) < MinTemplateTextLength
    THEN <<Err("issueTemplates", index, -1, "description", "must be at least 3 characters long")>>
    ELSE IF Len(issueTemplate.description) > MaxTemplateTextLength
    THEN <<Err("issueTemplates", index, -1, "description", "must not exceed 200 characters")>>
    ELSE IF IsEmptyOrMissingString(issueTemplate, "templateFile")
    THEN <<Err("issueTemplates", index, -1, "templateFile", "must be of type String and not empty")>>
    ELSE <<>>

validatePullRequestTemplate(pullRequestTemplate) ==
    IF IsEmptyOrMissingString(pullRequestTemplate, "templateFile")
    THEN <<Err("pullRequestTemplates", -1, -1, "templateFile", "must be of type String and not empty")>>
    ELSE <<>>

\* the checks of one element of protectedBranches
validateBranchSettings(breadcrump, branchSettings, index) ==
    IF IsEmptyOrMissingString(branchSettings, "name")
    THEN <<Err(breadcrump, index, -1, "name", "must be of type String")>>
    ELSE IF /\ Has(branchSettings, "requireStatusChecks")
            /\ Has(branchSettings.requireStatusChecks, "statusChecks")
            /\ \E i \in 1..Len(branchSettings.requireStatusChecks.statusChecks) :
                    Len(branchSettings.requireStatusChecks.statusChecks[i]) = 0
    THEN <<Err(breadcrump, index, -1, "requireStatusChecks.statusChecks", "must be of type String")>>
    ELSE <<>>

validateRepositorySettings(settings, breadcrump) ==
    IF Has(settings, "protectedBranches")
    THEN LET Validator(branchSettings, index) == validateBranchSettings(breadcrump, branchSettings, index)
         IN ForEachErrors(settings.protectedBranches, Validator, 1)
    ELSE <<>>

\* a value of a document whose type is not fixed by the model: the result of
\* typeof and the value
JsBoolean(value) == [typeof |-> "boolean", value |-> value]
JsString(value) == [typeof |-> "string", value |-> value]

\* BranchProtectionConfiguration.validateRawConfig: the checks of the name,
\* of requireReviews and of requireStatusChecks are those of
\* validateBranchSettings; the check of requireLinearHistory tests the type
\* of the name, which is a string once the check of the name has passed
validateRawConfig(rawRules, breadcrumb) ==
    LET Validator(branchSettings, index) ==
            LET errors == validateBranchSettings(breadcrumb, branchSettings, index)
                typeofName == "string"
            IN IF Len(errors) > 0 THEN errors
               ELSE IF Has(branchSettings, "requireLinearHistory") /\ typeofName # "boolean"
               THEN <<Err(breadcrumb, index, -1, "requireLinearHistory", "must be of type Boolean")>>
               ELSE <<>>
    IN ForEachErrors(rawRules, Validator, 1)

\* requireStatusChecks.statusChecks = [] where it is missing
defaultBranchSettings(branchSettings) ==
    IF Has(branchSettings, "requireStatusChecks")
       /\ ~Has(branchSettings.requireStatusChecks, "statusChecks")
    THEN Assign(branchSettings, "requireStatusChecks",
                Assign(branchSettings.requireStatusChecks, "statusChecks", <<>>))
    ELSE branchSettings

defaultRepositorySettings(settings) ==
    IF Has(settings, "protectedBranches")
    THEN Assign(settings, "protectedBranches",
                [i \in 1..Len(settings.protectedBranches) |->
                    defaultBranchSettings(settings.protectedBranches[i])])
    ELSE settings

validateTeamPermission(permission, index, permissionIndex) ==
    IF IsEmptyOrMissingString(permission, "teamName")
    THEN <<Err("repository", index, permissionIndex, "teamName", "must be of type String")>>
    ELSE IF ~Has(permission, "permission")
            \/ (permission.permission # NULL /\ Len(permission.permission) = 0)
    THEN <<Err("repository", index, permissionIndex, "permission", "must be of type String")>>
    ELSE IF parsePermissionString(permission.permission).threw
    THEN <<Err("repository", index, permissionIndex, "permission", "has an invalid value")>>
    ELSE <<>>

validateRepository(repository, index) ==
    IF IsEmptyOrMissingString(repository, "name")
    THEN <<Err("repositorys", index, -1, "name", "must be of type String")>>
    ELSE (IF Has(repository, "teamPermissions")
          THEN LET Validator(permission, permissionIndex) ==
                       validateTeamPermission(permission, index, permissionIndex)
               IN ForEachErrors(repository.teamPermissions, Validator, 1)
          ELSE <<>>)
         \o
         (IF Has(repository, "settings")
          THEN validateRepositorySettings(repository.settings, "repository.settings")
          ELSE <<>>)

----------------------------------------------------------------------------
(* Configuration reader: module.exports *)

SupportedExtensions == {".yml", ".yaml", ".json"}

\* path.extname(filePath).toLowerCase()
lowerCaseExtension(extension) ==
    CASE extension = ".YML" -> ".yml"
      [] extension = ".YAML" -> ".yaml"
      [] extension = ".JSON" -> ".json"
      [] OTHER -> extension

\* a reader that parses any file as YAML, whatever its extension
fileErrors_anyExtension(file) ==
    IF ~file.exists
    THEN <<Err("file", -1, -1, "path", "does not exist")>>
    ELSE IF ~file.wellFormed
    THEN <<Err("file", -1, -1, "content", "cannot be parsed")>>
    ELSE <<>>

\* errors of the checks before the document is looked at: the file does not
\* exist, its extension is not supported, or yaml.load or JSON.parse throws
fileErrors(file) ==
    IF ~file.exists
    THEN <<Err("file", -1, -1, "path", "does not exist")>>
    ELSE IF lowerCaseExtension(file.extension) \notin SupportedExtensions
    THEN <<Err("file", -1, -1, "extension", "Invalid config file extension")>>
    ELSE IF ~file.wellFormed
    THEN <<Err("file", -1, -1, "content", "cannot be parsed")>>
    ELSE <<>>

\* errors of the part headed 'Validate config', in the order of the checks
validationErrors(document) ==
    (IF IsEmptyOrMissingString(document, "orgName")
     THEN <<Err("orgName", -1, -1, "orgName", "missing required field")>> ELSE <<>>)
    \o (IF Has(document, "teams") THEN ForEachErrors(document.teams, validateTeam, 1) ELSE <<>>)
    \o (IF Has(document, "issueLabels")
        THEN ForEachErrors(document.issueLabels, validateIssueLabel, 1) ELSE <<>>)
    \o (IF Has(document, "issueTemplates")
        THEN ForEachErrors(document.issueTemplates, validateIssueTemplate, 1) ELSE <<>>)
    \o (IF Has(document, "pullRequestTemplate")
        THEN validatePullRequestTemplate(document.pullRequestTemplate) ELSE <<>>)
    \o (IF Has(document, "repositorySettings")
        THEN validateRepositorySettings(document.repositorySettings, "repositorySettings") ELSE <<>>)
    \o (IF Has(document, "repositories")
        THEN ForEachErrors(document.repositories, validateRepository, 1) ELSE <<>>)

\* the loop without the check of the two label fields
repositoryLabelErrors_noExclusion(repository, index) ==
    (IF Has(repository, "issueLabels")
     THEN ForEachErrors(repository.issueLabels, validateIssueLabel, 1) ELSE <<>>)
    \o (IF Has(repository, "additionalIssueLabels")
        THEN ForEachErrors(repository.additionalIssueLabels, validateIssueLabel, 1) ELSE <<>>)
    \o (IF Has(repository, "issueTemplates")
        THEN ForEachErrors(repository.issueTemplates, validateIssueTemplate, 1) ELSE <<>>)
    \o (IF Has(repository, "pullRequestTemplate")
        THEN validatePullRequestTemplate(repository.pullRequestTemplate) ELSE <<>>)

\* errors of the loop over the repositories in the part headed 'Convert
\* some config values'
repositoryLabelErrors(repository, index) ==
    (IF Has(repository, "issueLabels") /\ Has(repository, "additionalIssueLabels")
     THEN <<Err("repositories", index, -1, "issueLabels",
                "must not specify both issueLabels and additionalIssueLabels")>>
     ELSE <<>>)
    \o (IF Has(repository, "issueLabels")
        THEN ForEachErrors(repository.issueLabels, validateIssueLabel, 1) ELSE <<>>)
    \o (IF Has(repository, "additionalIssueLabels")
        THEN ForEachErrors(repository.additionalIssueLabels, validateIssueLabel, 1) ELSE <<>>)
    \o (IF Has(repository, "issueTemplates")
        THEN ForEachErrors(repository.issueTemplates, validateIssueTemplate, 1) ELSE <<>>)
    \o (IF Has(repository, "pullRequestTemplate")
        THEN validatePullRequestTemplate(repository.pullRequestTemplate) ELSE <<>>)

conversionErrors(document) ==
    IF Has(document, "repositories")
    THEN ForEachErrors(document.repositories, repositoryLabelErrors, 1)
    ELSE <<>>

\* team.defaultPermission = parsePermissionString(team.defaultPermission)
convertTeam(team) ==
    Assign(team, "defaultPermission", parsePermissionString(team.defaultPermission).value)

convertTeamPermission(teamPermission) ==
    Assign(teamPermission, "permission", parsePermissionString(teamPermission.permission).value)

\* label.color = label.color.toLowerCase()
convertIssueLabel(label) == Assign(label, "color", toLowerCase(label.color))

\* the org-level label list as the reader returns it
convertedOrgIssueLabels(document) ==
    IF Has(document, "issueLabels")
    THEN [i \in 1..Len(document.issueLabels) |-> convertIssueLabel(document.issueLabels[i])]
    ELSE <<>>

\* the merged list that forgets the org-level labels
mergedIssueLabels_additionalOnly(orgIssueLabels, additionalIssueLabels) == additionalIssueLabels

\* repository.issueLabels = [...config.issueLabels, ...repository.additionalIssueLabels]
\* The org-level label objects are shared with config.issueLabels and are
\* therefore lower-cased by the loop that follows; the additional ones are not.
mergedIssueLabels(orgIssueLabels, additionalIssueLabels) ==
    orgIssueLabels \o additionalIssueLabels

\* one repository entry as the reader returns it
convertRepository(document, repository) ==
    LET withPermissions ==
            Assign(repository, "teamPermissions",
                   IF Has(repository, "teamPermissions")
                   THEN [i \in 1..Len(repository.teamPermissions) |->
                            convertTeamPermission(repository.teamPermissions[i])]
                   ELSE <<>>)
        withSettings ==
            Assign(withPermissions, "settings",
                   IF Has(repository, "settings")
                   THEN defaultRepositorySettings(repository.settings)
                   ELSE [x \in {} |-> x])
    IN IF Has(repository, "additionalIssueLabels")
       THEN Assign(withSettings, "issueLabels",
                   mergedIssueLabels(convertedOrgIssueLabels(document),
                                     repository.additionalIssueLabels))
       ELSE withSettings

\* the object returned for a document without errors
convertedConfig(document) ==
    [ orgName |-> document.orgName,
      teams |-> IF Has(document, "teams")
                THEN [i \in 1..Len(document.teams) |-> convertTeam(document.teams[i])]
                ELSE <<>>,
      issueLabels |-> convertedOrgIssueLabels(document),
      issueTemplates |-> IF Has(document, "issueTemplates") THEN document.issueTemplates ELSE <<>>,
      repositorySettings |-> IF Has(document, "repositorySettings")
                             THEN defaultRepositorySettings(document.repositorySettings)
                             ELSE [x \in {} |-> x],
      repositories |-> IF Has(document, "repositories")
                       THEN [i \in 1..Len(document.repositories) |->
                                convertRepository(document, document.repositories[i])]
                       ELSE <<>> ]
    @@ (IF Has(document, "pullRequestTemplate")
        THEN [pullRequestTemplate |-> document.pullRequestTemplate]
        ELSE [x \in {} |-> x])

configReader(file, document) ==
    LET errors == fileErrors(file) \o validationErrors(document) \o conversionErrors(document)
    IN IF Len(errors) > 0 THEN Throw(errors[1]) ELSE Return(convertedConfig(document))

----------------------------------------------------------------------------
(* Parts shared by the commands *)

MaxFailures == 1

ErrorStatuses == {404, 500}

EmptyObject == [x \in {} |-> x]

\* config.repositories.find(repository => repository.name === githubRepository.name)
HasRepositoryConfig(cfg, repositoryName) ==
    Found(cfg.repositories, LAMBDA repository : repository.name = repositoryName)
RepositoryConfig(cfg, repositoryName) ==
    Find(cfg.repositories, LAMBDA repository : repository.name = repositoryName)

StartEvent(call) == [event |-> "start", call |-> call]
EndEvent(call, status) == [event |-> "end", call |-> call, status |-> status]

\* the per-repository callback is not running
Idle == [phase |-> "idle"]

\* commandRunner: a rejected command ends the process with exit code -1
Exit(code) == IF code = 0 THEN "done" ELSE "failed"

\* asyncSequence / sequentiallyAwaitEach: the callback of the next element
\* starts when the one before has resolved; after the last, the command ends
NextRepositoryPc(repositories, index) ==
    IF index + 1 > Len(repositories) THEN Exit(0) ELSE "repositories"

\* a limiter that starts a scheduled job while another job is running
LimiterStart_unlimited ==
    /\ pc = "repositories"
    /\ local.phase \in {"add", "update", "delete", "permissions"}
    /\ command \in {"issue-labels", "repository-permissions"}
    /\ Len(local.queue) > 0
    /\ inflight' = inflight \cup {Head(local.queue)}
    /\ local' = [local EXCEPT !.queue = Tail(@)]
    /\ calls' = Append(calls, StartEvent(Head(local.queue)))
    /\ UNCHANGED <<arg, ret, allGithubRepositories, command, rawConfig, config, error, pc, github, repoIndex, failures>>

\* limiter.schedule: the limiter runs one job at a time, in the order the jobs were scheduled
LimiterStart ==
    /\ pc = "repositories"
    /\ local.phase \in {"add", "update", "delete", "permissions"}
    /\ command \in {"issue-labels", "repository-permissions"}
    /\ inflight = {}
    /\ Len(local.queue) > 0
    /\ inflight' = {Head(local.queue)}
    /\ local' = [local EXCEPT !.queue = Tail(@)]
    /\ calls' = Append(calls, StartEvent(Head(local.queue)))
    /\ UNCHANGED <<arg, ret, allGithubRepositories, command, rawConfig, config, error, pc, github, repoIndex, failures>>

----------------------------------------------------------------------------
(* Command issue-labels *)

DescriptionOrNull(label) ==
    IF Has(label, "description") /\ label.description # NULL /\ Len(label.description) > 0
    THEN label.description
    ELSE NULL

\* label names compared exactly
SameLabelName_exact(a, b) == a.name = b.name

\* the names of two labels are the same if they differ in case only
SameLabelName(a, b) == toLowerCase(a.name) = toLowerCase(b.name)

\* (repositoryConfig && repositoryConfig.issueLabels) || config.issueLabels
expectedIssueLabels(cfg, repositoryName) ==
    IF HasRepositoryConfig(cfg, repositoryName)
       /\ Has(RepositoryConfig(cfg, repositoryName), "issueLabels")
    THEN RepositoryConfig(cfg, repositoryName).issueLabels
    ELSE cfg.issueLabels

labelsToAdd(expected, repoLabels) ==
    Filter(expected, LAMBDA issueLabel :
        ~Found(repoLabels, LAMBDA label : SameLabelName(label, issueLabel)))

\* the update of one live label, or none
labelUpdate(repositoryName, expected, repoLabel) ==
    IF ~Found(expected, LAMBDA label : SameLabelName(label, repoLabel))
    THEN <<>>
    ELSE LET issueLabel == Find(expected, LAMBDA label : SameLabelName(label, repoLabel))
             issueLabelDescription == DescriptionOrNull(issueLabel)
             repoLabelDescription == DescriptionOrNull(repoLabel)
         IN IF issueLabelDescription = repoLabelDescription
               /\ issueLabel.color = toLowerCase(repoLabel.color)
            THEN <<>>
            ELSE << [op |-> "updateLabel", repo |-> repositoryName,
                     current_name |-> repoLabel.name, name |-> repoLabel.name,
                     description |-> issueLabelDescription, color |-> issueLabel.color] >>

labelUpdates(repositoryName, expected, repoLabels) ==
    Flatten([i \in 1..Len(repoLabels) |-> labelUpdate(repositoryName, expected, repoLabels[i])])

repoLabelsToDelete(expected, repoLabels) ==
    Filter(repoLabels, LAMBDA repoLabel :
        ~Found(expected, LAMBDA label : SameLabelName(label, repoLabel)))

createLabelCalls(repositoryName, labels) ==
    [i \in 1..Len(labels) |->
        [op |-> "createLabel", repo |-> repositoryName, name |-> labels[i].name,
         description |-> DescriptionOrNull(labels[i]), color |-> labels[i].color]]

deleteLabelCalls(repositoryName, labels) ==
    [i \in 1..Len(labels) |->
        [op |-> "deleteLabel", repo |-> repositoryName, name |-> labels[i].name]]

\* the order delete, update, add
LabelPhases_deleteFirst == <<"delete", "update", "add">>

\* the order of the three parts of the callback
LabelPhases == <<"add", "update", "delete">>

labelPhaseCalls(phase, repositoryName, expected, repoLabels) ==
    CASE phase = "add" -> createLabelCalls(repositoryName, labelsToAdd(expected, repoLabels))
      [] phase = "update" -> labelUpdates(repositoryName, expected, repoLabels)
      [] phase = "delete" -> deleteLabelCalls(repositoryName, repoLabelsToDelete(expected, repoLabels))

\* what GitHub does with a label call that it accepts
applyLabelCall(labels, call) ==
    CASE call.op = "createLabel" ->
            Append(labels, [name |-> call.name, color |-> call.color,
                            description |-> call.description])
      [] call.op = "updateLabel" ->
            [i \in 1..Len(labels) |->
                IF labels[i].name = call.current_name
                THEN [name |-> call.name, color |-> call.color, description |-> call.description]
                ELSE labels[i]]
      [] call.op = "deleteLabel" ->
            Filter(labels, LAMBDA label : label.name # call.name)

IssueLabelsReadConfig ==
    /\ command = "issue-labels"
    /\ pc = "start"
    /\ LET result == configReader(arg, rawConfig) IN
        IF result.threw
        THEN /\ pc' = Exit(-1)
             /\ error' = result.message
             /\ UNCHANGED config
        ELSE IF Len(result.value.issueLabels) = 0
        THEN /\ pc' = Exit(-1)
             /\ error' = Err("issueLabels", -1, -1, "issueLabels", "must contain at least one entry")
             /\ UNCHANGED config
        ELSE /\ pc' = "configured"
             /\ config' = result.value
             /\ UNCHANGED error
    /\ UNCHANGED <<arg, ret, allGithubRepositories, command, rawConfig, github, repoIndex, local, inflight, calls, failures>>

\* the repositories are listed although the organization was not found
IssueLabelsLoadRepositories_withoutOrganization ==
    /\ command = "issue-labels"
    /\ pc = "configured"
    /\ LET repositories ==
            Filter(github.repositories,
                   LAMBDA repository : ~repository.archived /\ repository.has_issues)
       IN /\ allGithubRepositories' = repositories
          /\ repoIndex' = 1
          /\ pc' = IF Len(repositories) = 0 THEN Exit(0) ELSE "repositories"
          /\ UNCHANGED error
    /\ UNCHANGED <<arg, ret, command, rawConfig, config, github, local, inflight, calls, failures>>

\* findOrganization, then the list of the repositories that are not archived
\* and have issues
IssueLabelsLoadRepositories ==
    /\ command = "issue-labels"
    /\ pc = "configured"
    /\ IF ~github.orgVisible
       THEN /\ pc' = Exit(-1)
            /\ error' = Err("organization", -1, -1, "orgName", "does not exist or is not visible")
            /\ UNCHANGED <<allGithubRepositories, repoIndex>>
       ELSE LET repositories ==
                    Filter(github.repositories,
                           LAMBDA repository : ~repository.archived /\ repository.has_issues)
            IN /\ allGithubRepositories' = repositories
               /\ repoIndex' = 1
               /\ pc' = IF Len(repositories) = 0 THEN Exit(0) ELSE "repositories"
               /\ UNCHANGED error
    /\ UNCHANGED <<arg, ret, command, rawConfig, config, github, local, inflight, calls, failures>>

\* the callback starts: the live labels are listed, the expected labels are
\* chosen and the calls of the first part are scheduled
IssueLabelsSyncRepository ==
    /\ command = "issue-labels"
    /\ pc = "repositories"
    /\ local = Idle
    /\ LET repositoryName == allGithubRepositories[repoIndex].name
           repoLabels == github.labels[repositoryName]
           expected == expectedIssueLabels(config, repositoryName)
       IN local' = [phase |-> LabelPhases[1], part |-> 1, repo |-> repositoryName,
                    repoLabels |-> repoLabels, expected |-> expected,
                    queue |-> labelPhaseCalls(LabelPhases[1], repositoryName, expected, repoLabels)]
    /\ UNCHANGED <<arg, ret, allGithubRepositories, command, rawConfig, config, error, pc, github, repoIndex,
                   inflight, calls, failures>>

\* GitHub accepts the label call in flight
IssueLabelsCallSucceeds ==
    /\ command = "issue-labels"
    /\ pc = "repositories"
    /\ \E call \in inflight :
        /\ inflight' = inflight \ {call}
        /\ github' = [github EXCEPT !.labels[call.repo] = applyLabelCall(@, call)]
        /\ calls' = Append(calls, EndEvent(call, 200))
    /\ UNCHANGED <<arg, ret, allGithubRepositories, command, rawConfig, config, error, pc, repoIndex, local, failures>>

\* GitHub answers the label call in flight with an error: Promise.all rejects
\* and, as nothing catches it, so does the command
IssueLabelsCallFails ==
    /\ command = "issue-labels"
    /\ pc = "repositories"
    /\ failures < MaxFailures
    /\ \E call \in inflight, status \in ErrorStatuses :
        /\ inflight' = inflight \ {call}
        /\ calls' = Append(calls, EndEvent(call, status))
        /\ error' = [where |-> "api", index |-> -1, sub |-> -1, field |-> call.op, kind |-> status]
    /\ failures' = failures + 1
    /\ pc' = Exit(-1)
    /\ local' = [local EXCEPT !.queue = <<>>]
    /\ UNCHANGED <<arg, ret, allGithubRepositories, command, rawConfig, config, github, repoIndex>>

\* Promise.all of one part has resolved: the calls of the next part are
\* scheduled, or the callback returns and asyncSequence goes on
IssueLabelsNextPart ==
    /\ command = "issue-labels"
    /\ pc = "repositories"
    /\ local # Idle
    /\ inflight = {}
    /\ Len(local.queue) = 0
    /\ IF local.part < Len(LabelPhases)
       THEN /\ local' = [local EXCEPT
                            !.part = @ + 1,
                            !.phase = LabelPhases[local.part + 1],
                            !.queue = labelPhaseCalls(LabelPhases[local.part + 1], local.repo,
                                                      local.expected, local.repoLabels)]
            /\ UNCHANGED <<pc, repoIndex>>
       ELSE /\ local' = Idle
            /\ repoIndex' = repoIndex + 1
            /\ pc' = NextRepositoryPc(allGithubRepositories, repoIndex)
    /\ UNCHANGED <<arg, ret, allGithubRepositories, command, rawConfig, config, error, github, inflight, calls, failures>>

----------------------------------------------------------------------------
(* Command repository-permissions *)

\* a special permission that is null does not count
repositoryPermission_nullFallsBack(cfg, configTeam, repositoryName) ==
    IF HasRepositoryConfig(cfg, repositoryName)
       /\ Found(RepositoryConfig(cfg, repositoryName).teamPermissions,
                LAMBDA teamPermission : teamPermission.teamName = configTeam.name
                                        /\ teamPermission.permission # NULL)
    THEN Find(RepositoryConfig(cfg, repositoryName).teamPermissions,
              LAMBDA teamPermission : teamPermission.teamName = configTeam.name
                                      /\ teamPermission.permission # NULL).permission
    ELSE configTeam.defaultPermission

\* the team's permission for the repository: the special permission of the
\* repository's entry, or the team's default
repositoryPermission(cfg, configTeam, repositoryName) ==
    IF HasRepositoryConfig(cfg, repositoryName)
       /\ Found(RepositoryConfig(cfg, repositoryName).teamPermissions,
                LAMBDA teamPermission : teamPermission.teamName = configTeam.name)
    THEN Find(RepositoryConfig(cfg, repositoryName).teamPermissions,
              LAMBDA teamPermission : teamPermission.teamName = configTeam.name).permission
    ELSE configTeam.defaultPermission

\* the first call the callback of one team schedules
teamCall(cfg, configTeam, repositoryName) ==
    LET permission == repositoryPermission(cfg, configTeam, repositoryName)
    IN IF permission # NULL
       THEN [op |-> "addOrUpdateRepoPermissionsInOrg", repo |-> repositoryName,
             team |-> configTeam.githubTeam.slug, permission |-> permission]
       ELSE [op |-> "checkPermissionsForRepoInOrg", repo |-> repositoryName,
             team |-> configTeam.githubTeam.slug]

\* the calls of the configured teams, and a check for every team of the organization
teamCalls_everyTeam(cfg, repositoryName) ==
    [i \in 1..Len(cfg.teams) |-> teamCall(cfg, cfg.teams[i], repositoryName)]
    \o [i \in 1..Len(github.teams) |->
            [op |-> "checkPermissionsForRepoInOrg", repo |-> repositoryName,
             team |-> github.teams[i].slug]]

teamCalls(cfg, repositoryName) ==
    [i \in 1..Len(cfg.teams) |-> teamCall(cfg, cfg.teams[i], repositoryName)]

removeCollaboratorCalls(repositoryName, collaborators) ==
    { [op |-> "removeCollaborator", repo |-> repositoryName, username |-> login] :
        login \in collaborators }

\* the option alone decides, whatever the entry of the repository says
clearsCollaborators_optionOnly(option, cfg, repositoryName) == option

\* program.opts().clearCollaborators === true
\*     && (!configRepository || configRepository.clearCollaborators !== false)
clearsCollaborators(option, cfg, repositoryName) ==
    /\ option
    /\ \/ ~HasRepositoryConfig(cfg, repositoryName)
       \/ ~Has(RepositoryConfig(cfg, repositoryName), "clearCollaborators")
       \/ RepositoryConfig(cfg, repositoryName).clearCollaborators # FALSE

\* what GitHub does with a call of this command that it accepts
applyPermissionCall(state, call) ==
    CASE call.op = "addOrUpdateRepoPermissionsInOrg" ->
            [state EXCEPT !.permissions[call.repo][call.team] = call.permission]
      [] call.op = "removeRepoInOrg" ->
            [state EXCEPT !.permissions[call.repo][call.team] = NULL]
      [] call.op = "removeCollaborator" ->
            [state EXCEPT !.collaborators[call.repo] = @ \ {call.username}]
      [] OTHER -> state

RepositoryPermissionsReadConfig ==
    /\ command = "repository-permissions"
    /\ pc = "start"
    /\ LET result == configReader(arg, rawConfig) IN
        IF result.threw
        THEN /\ pc' = Exit(-1)
             /\ error' = result.message
             /\ UNCHANGED config
        ELSE IF Len(result.value.teams) = 0
        THEN /\ pc' = Exit(-1)
             /\ error' = Err("teams", -1, -1, "teams", "must contain at least one entry")
             /\ UNCHANGED config
        ELSE /\ pc' = "configured"
             /\ config' = result.value
             /\ UNCHANGED error
    /\ UNCHANGED <<arg, ret, allGithubRepositories, command, rawConfig, github, repoIndex,
                   local, inflight, calls, failures>>

\* configTeam.githubTeam = allGithubTeams.find(team => team.name === configTeam.name)
withGithubTeam(configTeam, allGithubTeams) ==
    Assign(configTeam, "githubTeam",
           Find(allGithubTeams, LAMBDA team : team.name = configTeam.name))

\* findOrganization, the list of the teams, the check that every configured
\* team exists, and the list of the repositories
RepositoryPermissionsLoadOrganization ==
    /\ command = "repository-permissions"
    /\ pc = "configured"
    /\ IF ~github.orgVisible
       THEN /\ pc' = Exit(-1)
            /\ error' = Err("organization", -1, -1, "orgName", "does not exist or is not visible")
            /\ UNCHANGED <<config, allGithubRepositories, repoIndex>>
       ELSE IF \E i \in 1..Len(config.teams) :
                    ~Found(github.teams, LAMBDA team : team.name = config.teams[i].name)
       THEN /\ pc' = Exit(-1)
            /\ error' = Err("teams", -1, -1, "name", "cannot be found in org")
            /\ UNCHANGED <<config, allGithubRepositories, repoIndex>>
       ELSE /\ config' = [config EXCEPT !.teams =
                            [i \in 1..Len(config.teams) |-> withGithubTeam(config.teams[i], github.teams)]]
            /\ allGithubRepositories' = github.repositories
            /\ repoIndex' = 1
            /\ pc' = IF Len(github.repositories) = 0 THEN Exit(0) ELSE "repositories"
            /\ UNCHANGED error
    /\ UNCHANGED <<arg, ret, command, rawConfig, github, local, inflight, calls, failures>>

\* the callback starts: either the collaborators are listed and their
\* removals are started, all at once, or the calls of the teams are scheduled
RepositoryPermissionsUpdateRepository ==
    /\ command = "repository-permissions"
    /\ pc = "repositories"
    /\ local = Idle
    /\ LET repositoryName == allGithubRepositories[repoIndex].name IN
        IF clearsCollaborators(arg.clearCollaborators, config, repositoryName)
        THEN LET removals == removeCollaboratorCalls(repositoryName, github.collaborators[repositoryName])
             IN /\ local' = [phase |-> "collaborators", repo |-> repositoryName, queue |-> <<>>,
                             removals |-> removals, teamCalls |-> <<>>]
                /\ inflight' = removals
        ELSE /\ local' = [phase |-> "permissions", repo |-> repositoryName,
                          queue |-> teamCalls(config, repositoryName), removals |-> {},
                          teamCalls |-> teamCalls(config, repositoryName)]
             /\ UNCHANGED inflight
    /\ UNCHANGED <<arg, ret, allGithubRepositories, command, rawConfig, config, error, pc,
                   github, repoIndex, calls, failures>>

\* Promise.all of the removals has resolved: the calls of the teams are scheduled
RepositoryPermissionsScheduleTeams ==
    /\ command = "repository-permissions"
    /\ pc = "repositories"
    /\ local.phase = "collaborators"
    /\ inflight = {}
    /\ local' = [local EXCEPT !.phase = "permissions",
                               !.queue = teamCalls(config, local.repo),
                               !.teamCalls = teamCalls(config, local.repo)]
    /\ UNCHANGED <<arg, ret, allGithubRepositories, command, rawConfig, config, error, pc,
                   github, repoIndex, inflight, calls, failures>>

\* GitHub accepts the call in flight; an accepted check means that the team
\* has a permission, and its removal is scheduled
RepositoryPermissionsCallSucceeds ==
    /\ command = "repository-permissions"
    /\ pc = "repositories"
    /\ \E call \in inflight :
        /\ call.op = "checkPermissionsForRepoInOrg" => github.permissions[call.repo][call.team] # NULL
        /\ inflight' = inflight \ {call}
        /\ github' = applyPermissionCall(github, call)
        /\ calls' = Append(calls, EndEvent(call, 200))
        /\ local' = IF call.op = "checkPermissionsForRepoInOrg"
                    THEN [local EXCEPT !.queue =
                            Append(@, [op |-> "removeRepoInOrg", repo |-> call.repo, team |-> call.team])]
                    ELSE local
    /\ UNCHANGED <<arg, ret, allGithubRepositories, command, rawConfig, config, error, pc,
                   repoIndex, failures>>

\* the check is answered 404 and the removal is scheduled all the same
RepositoryPermissionsCheckNotFound_removesAnyway ==
    /\ command = "repository-permissions"
    /\ pc = "repositories"
    /\ \E call \in inflight :
        /\ call.op = "checkPermissionsForRepoInOrg"
        /\ github.permissions[call.repo][call.team] = NULL
        /\ inflight' = inflight \ {call}
        /\ calls' = Append(calls, EndEvent(call, 404))
        /\ local' = [local EXCEPT !.queue =
                        Append(@, [op |-> "removeRepoInOrg", repo |-> call.repo, team |-> call.team])]
    /\ UNCHANGED <<arg, ret, allGithubRepositories, command, rawConfig, config, error, pc,
                   github, repoIndex, failures>>

\* the check is answered 404, as the team has no permission for the
\* repository: the team's callback returns null
RepositoryPermissionsCheckNotFound ==
    /\ command = "repository-permissions"
    /\ pc = "repositories"
    /\ \E call \in inflight :
        /\ call.op = "checkPermissionsForRepoInOrg"
        /\ github.permissions[call.repo][call.team] = NULL
        /\ inflight' = inflight \ {call}
        /\ calls' = Append(calls, EndEvent(call, 404))
    /\ UNCHANGED <<arg, ret, allGithubRepositories, command, rawConfig, config, error, pc,
                   github, repoIndex, local, failures>>

\* GitHub answers a call with an error although it could have accepted it.
\* Only the 404 of the check is caught; any other error rejects Promise.all
\* and with it the command.
RepositoryPermissionsCallFails ==
    /\ command = "repository-permissions"
    /\ pc = "repositories"
    /\ failures < MaxFailures
    /\ failures' = failures + 1
    /\ \E call \in inflight, status \in ErrorStatuses :
        /\ inflight' = inflight \ {call}
        /\ calls' = Append(calls, EndEvent(call, status))
        /\ IF call.op = "checkPermissionsForRepoInOrg" /\ status = 404
           THEN UNCHANGED <<error, pc, local>>
           ELSE /\ error' = [where |-> "api", index |-> -1, sub |-> -1, field |-> call.op, kind |-> status]
                /\ pc' = Exit(-1)
                /\ local' = [local EXCEPT !.queue = <<>>]
    /\ UNCHANGED <<arg, ret, allGithubRepositories, command, rawConfig, config, github, repoIndex>>

\* Promise.all of the teams has resolved: the callback returns
RepositoryPermissionsFinishRepository ==
    /\ command = "repository-permissions"
    /\ pc = "repositories"
    /\ local.phase = "permissions"
    /\ inflight = {}
    /\ Len(local.queue) = 0
    /\ local' = Idle
    /\ repoIndex' = repoIndex + 1
    /\ pc' = NextRepositoryPc(allGithubRepositories, repoIndex)
    /\ UNCHANGED <<arg, ret, allGithubRepositories, command, rawConfig, config, error, github,
                   inflight, calls, failures>>

RepositoryPermissions ==
    \/ RepositoryPermissionsReadConfig
    \/ RepositoryPermissionsLoadOrganization
    \/ RepositoryPermissionsUpdateRepository
    \/ RepositoryPermissionsScheduleTeams
    \/ RepositoryPermissionsCallSucceeds
    \/ RepositoryPermissionsCheckNotFound
    \/ RepositoryPermissionsCallFails
    \/ RepositoryPermissionsFinishRepository

----------------------------------------------------------------------------
(* Command repository-settings *)

\* null in a slot that otherwise holds an object
nullObject == [null |-> TRUE]

\* config.repositories.filter(repoConfig => repoConfig.settings
\*     && Object.keys(repoConfig.settings).length > 0)
repositoriesWithSettings(cfg) ==
    Filter(cfg.repositories, LAMBDA repoConfig : DOMAIN repoConfig.settings # {})

\* a repository without configured protected branches is given an empty list
protectedBranchesConfig_emptyByDefault(cfg, repositoryName) ==
    IF HasRepositoryConfig(cfg, repositoryName)
       /\ Has(RepositoryConfig(cfg, repositoryName).settings, "protectedBranches")
    THEN [isArray |-> TRUE,
          rules |-> RepositoryConfig(cfg, repositoryName).settings.protectedBranches]
    ELSE IF Has(cfg.repositorySettings, "protectedBranches")
    THEN [isArray |-> TRUE, rules |-> cfg.repositorySettings.protectedBranches]
    ELSE [isArray |-> TRUE, rules |-> <<>>]

\* (configRepository && configRepository.settings && configRepository.settings.protectedBranches)
\*     ? configRepository.settings.protectedBranches : globalProtectedBranches
\* isArray is Array.isArray(protectedBranchesConfig): the value is null if
\* neither the entry nor the organization configures protected branches
protectedBranchesConfig(cfg, repositoryName) ==
    IF HasRepositoryConfig(cfg, repositoryName)
       /\ Has(RepositoryConfig(cfg, repositoryName).settings, "protectedBranches")
    THEN [isArray |-> TRUE,
          rules |-> RepositoryConfig(cfg, repositoryName).settings.protectedBranches]
    ELSE IF Has(cfg.repositorySettings, "protectedBranches")
    THEN [isArray |-> TRUE, rules |-> cfg.repositorySettings.protectedBranches]
    ELSE [isArray |-> FALSE, rules |-> <<>>]

\* the payload of updateBranchProtection for a rule; a key of the rule that
\* is missing gives a key of the payload that is missing (undefined)
protectionConfig(branchConfig) ==
    [ enforce_admins |-> FALSE,
      required_pull_request_reviews |->
          IF Has(branchConfig, "requireReviews")
          THEN (IF Has(branchConfig.requireReviews, "dismissApprovalWhenChanged")
                THEN [dismiss_stale_reviews |-> branchConfig.requireReviews.dismissApprovalWhenChanged]
                ELSE EmptyObject)
               @@
               (IF Has(branchConfig.requireReviews, "requireCodeOwnerReview")
                THEN [require_code_owner_reviews |-> branchConfig.requireReviews.requireCodeOwnerReview]
                ELSE EmptyObject)
          ELSE nullObject,
      required_status_checks |->
          IF Has(branchConfig, "requireStatusChecks")
          THEN [contexts |-> branchConfig.requireStatusChecks.statusChecks]
               @@
               (IF Has(branchConfig.requireStatusChecks, "requireBranchUpToDate")
                THEN [strict |-> branchConfig.requireStatusChecks.requireBranchUpToDate]
                ELSE EmptyObject)
          ELSE nullObject,
      restrictions |-> nullObject ]

\* the call made for one branch of the repository
branchCall(repositoryName, rules, branch) ==
    IF Found(rules, LAMBDA anyConfig : anyConfig.name = branch.name)
    THEN [op |-> "updateBranchProtection", repo |-> repositoryName, branch |-> branch.name,
          protection |-> protectionConfig(Find(rules, LAMBDA anyConfig : anyConfig.name = branch.name))]
    ELSE [op |-> "deleteBranchProtection", repo |-> repositoryName, branch |-> branch.name]

branchCalls(repositoryName, rules, branches) ==
    [i \in 1..Len(branches) |-> branchCall(repositoryName, rules, branches[i])]

\* the branches of a repository after GitHub has carried out the call
applyBranchCall(branches, call) ==
    [i \in 1..Len(branches) |->
        IF branches[i].name # call.branch THEN branches[i]
        ELSE IF call.op = "updateBranchProtection"
        THEN [name |-> call.branch, protected |-> TRUE, protection |-> call.protection]
        ELSE [name |-> call.branch, protected |-> FALSE, protection |-> nullObject]]

IsProtected(branches, branchName) ==
    \E i \in 1..Len(branches) : branches[i].name = branchName /\ branches[i].protected

RepositorySettingsReadConfig ==
    /\ command = "repository-settings"
    /\ pc = "start"
    /\ LET result == configReader(arg, rawConfig) IN
        IF result.threw
        THEN /\ pc' = Exit(-1)
             /\ error' = result.message
             /\ UNCHANGED config
        ELSE IF DOMAIN result.value.repositorySettings = {}
                /\ Len(repositoriesWithSettings(result.value)) = 0
        THEN /\ pc' = Exit(-1)
             /\ error' = Err("repositorySettings", -1, -1, "repositorySettings",
                             "must contain repositorySettings and/or settings per repository")
             /\ UNCHANGED config
        ELSE /\ pc' = "configured"
             /\ config' = result.value
             /\ UNCHANGED error
    /\ UNCHANGED <<arg, ret, allGithubRepositories, command, rawConfig, github, repoIndex, local,
                   inflight, calls, failures>>

\* findOrganization, then the list of all repositories of the organization
RepositorySettingsLoadRepositories ==
    /\ command = "repository-settings"
    /\ pc = "configured"
    /\ IF ~github.orgVisible
       THEN /\ pc' = Exit(-1)
            /\ error' = Err("organization", -1, -1, "orgName", "does not exist or is not visible")
            /\ UNCHANGED <<allGithubRepositories, repoIndex>>
       ELSE /\ allGithubRepositories' = github.repositories
            /\ repoIndex' = 1
            /\ pc' = IF Len(github.repositories) = 0 THEN Exit(0) ELSE "repositories"
            /\ UNCHANGED error
    /\ UNCHANGED <<arg, ret, command, rawConfig, config, github, local, inflight, calls, failures>>

\* the callback starts: the rules are chosen and, if there are any, the
\* branches are listed and the call of every branch is issued, in the order
\* of the branches and without waiting for an answer
RepositorySettingsUpdateRepository ==
    /\ command = "repository-settings"
    /\ pc = "repositories"
    /\ local = Idle
    /\ LET repositoryName == allGithubRepositories[repoIndex].name
           chosen == protectedBranchesConfig(config, repositoryName)
           issued == IF chosen.isArray
                     THEN branchCalls(repositoryName, chosen.rules, github.branches[repositoryName])
                     ELSE <<>>
       IN /\ local' = [phase |-> "branches", repo |-> repositoryName,
                       protectedBranchesConfig |-> chosen, branchCalls |-> issued]
          /\ inflight' = { issued[i] : i \in 1..Len(issued) }
          /\ calls' = calls \o [i \in 1..Len(issued) |-> StartEvent(issued[i])]
    /\ UNCHANGED <<arg, ret, allGithubRepositories, command, rawConfig, config, error, pc, github,
                   repoIndex, failures>>

\* GitHub carries out a branch call in flight; removing the protection of a
\* branch that has none is answered with 404, which the command ignores
RepositorySettingsCallSucceeds ==
    /\ command = "repository-settings"
    /\ pc = "repositories"
    /\ \E call \in inflight :
        /\ inflight' = inflight \ {call}
        /\ github' = [github EXCEPT !.branches[call.repo] = applyBranchCall(@, call)]
        /\ calls' = Append(calls,
                      EndEvent(call, IF call.op = "deleteBranchProtection"
                                        /\ ~IsProtected(github.branches[call.repo], call.branch)
                                     THEN 404 ELSE 200))
    /\ UNCHANGED <<arg, ret, allGithubRepositories, command, rawConfig, config, error, pc,
                   repoIndex, local, failures>>

\* GitHub answers a branch call in flight with an error that is not ignored:
\* Promise.all rejects and, as nothing catches it, so does the command
RepositorySettingsCallFails ==
    /\ command = "repository-settings"
    /\ pc = "repositories"
    /\ failures < MaxFailures
    /\ \E call \in inflight, status \in ErrorStatuses :
        /\ ~(call.op = "deleteBranchProtection" /\ status = 404)
        /\ inflight' = inflight \ {call}
        /\ calls' = Append(calls, EndEvent(call, status))
        /\ error' = [where |-> "api", index |-> -1, sub |-> -1, field |-> call.op, kind |-> status]
    /\ failures' = failures + 1
    /\ pc' = Exit(-1)
    /\ UNCHANGED <<arg, ret, allGithubRepositories, command, rawConfig, config, github, repoIndex, local>>

\* the callback returns although Promise.all of the branches is not awaited
RepositorySettingsFinishRepository_withoutAwait ==
    /\ command = "repository-settings"
    /\ pc = "repositories"
    /\ local # Idle
    /\ local' = Idle
    /\ repoIndex' = repoIndex + 1
    /\ pc' = NextRepositoryPc(allGithubRepositories, repoIndex)
    /\ UNCHANGED <<arg, ret, allGithubRepositories, command, rawConfig, config, error, github,
                   inflight, calls, failures>>

\* Promise.all has resolved: the callback returns and asyncSequence goes on
RepositorySettingsFinishRepository ==
    /\ command = "repository-settings"
    /\ pc = "repositories"
    /\ local # Idle
    /\ inflight = {}
    /\ local' = Idle
    /\ repoIndex' = repoIndex + 1
    /\ pc' = NextRepositoryPc(allGithubRepositories, repoIndex)
    /\ UNCHANGED <<arg, ret, allGithubRepositories, command, rawConfig, config, error, github,
                   inflight, calls, failures>>

RepositorySettings ==
    \/ RepositorySettingsReadConfig
    \/ RepositorySettingsLoadRepositories
    \/ RepositorySettingsUpdateRepository
    \/ RepositorySettingsCallSucceeds
    \/ RepositorySettingsCallFails
    \/ RepositorySettingsFinishRepository

----------------------------------------------------------------------------
(* Command issue-templates *)

(* A path is the sequence of its segments; the last two are the base of    *)
(* the file name and its extension.  The text of a file is a record of     *)
(* its parts: the front matter (name and about) if it has one, and the     *)
(* body.                                                                    *)

GITHUB_DIR == <<".github">>
GITHUB_ISSUE_TEMPLATE_DIR == GITHUB_DIR \o <<"ISSUE_TEMPLATE">>
PR_TEMPLATE_NAME == <<"_","_","P","R","_","T","E","M","P","L","A","T","E","_","_">>
PR_TEMPLATE_FILE_NAME == <<"pull_request_template", ".md">>

\* path.extname, path.basename, path.dirname
extname(path) == IF Len(path) < 2 THEN "" ELSE path[Len(path)]
basename(path) == IF Len(path) < 2 THEN path ELSE SubSeq(path, Len(path) - 1, Len(path))
dirname(path) == IF Len(path) < 2 THEN <<>> ELSE SubSeq(path, 1, Len(path) - 2)

\* path.resolve(path.dirname(configPath), templateFile)
resolvedTemplatePath(commandLine, templateFile) == dirname(commandLine.configPath) \o templateFile

\* resolveTemplateFilePath: the errors of one template file
templateFileErrors(commandLine, template, where) ==
    IF extname(template.templateFile) # ".md"
    THEN <<Err(where, -1, -1, "templateFile", "type is not supported")>>
    ELSE IF resolvedTemplatePath(commandLine, template.templateFile) \notin DOMAIN commandLine.files
    THEN <<Err(where, -1, -1, "templateFile", "does not exist")>>
    ELSE <<>>

\* createIssueTemplateFile: the front matter dumped from name and
\* description, and the text of the template file
createIssueTemplateFile(commandLine, issueTemplate, templatePath) ==
    [ metaData |-> [name |-> issueTemplate.name, about |-> issueTemplate.description],
      body |-> commandLine.files[templatePath] ]

\* parseIssueTemplateFile
parseIssueTemplateFile(commandLine, issueTemplate) ==
    LET templatePath == resolvedTemplatePath(commandLine, issueTemplate.templateFile)
    IN Assign(Assign(Assign(issueTemplate,
           "templateFile", templatePath),
           "githubTemplateFile", createIssueTemplateFile(commandLine, issueTemplate, templatePath)),
           "githubPath", GITHUB_ISSUE_TEMPLATE_DIR \o basename(templatePath))

\* parsePullRequestTemplateFile, and the name given to the template
parsePullRequestTemplateFile(commandLine, pullRequestTemplate) ==
    LET templatePath == resolvedTemplatePath(commandLine, pullRequestTemplate.templateFile)
    IN Assign(Assign(Assign(Assign(pullRequestTemplate,
           "templateFile", templatePath),
           "githubTemplateFile", [body |-> commandLine.files[templatePath]]),
           "githubPath", GITHUB_DIR \o PR_TEMPLATE_FILE_NAME),
           "name", PR_TEMPLATE_NAME)

\* the errors of the template files of the configuration
templateErrors(commandLine, cfg) ==
    LET IssueTemplateErrors(template, index) == templateFileErrors(commandLine, template, "issueTemplates")
        PullRequestTemplateErrors(object) ==
            IF Has(object, "pullRequestTemplate")
            THEN templateFileErrors(commandLine, object.pullRequestTemplate, "pullRequestTemplate")
            ELSE <<>>
        RepositoryIssueTemplateErrors(repository, index) ==
            IF Has(repository, "issueTemplates")
            THEN ForEachErrors(repository.issueTemplates, IssueTemplateErrors, 1) ELSE <<>>
        RepositoryPullRequestTemplateErrors(repository, index) ==
            PullRequestTemplateErrors(repository)
    IN ForEachErrors(cfg.issueTemplates, IssueTemplateErrors, 1)
       \o ForEachErrors(cfg.repositories, RepositoryIssueTemplateErrors, 1)
       \o PullRequestTemplateErrors(cfg)
       \o ForEachErrors(cfg.repositories, RepositoryPullRequestTemplateErrors, 1)

\* the configuration after the template files have been read
withTemplateFiles(commandLine, cfg) ==
    LET ParseAll(templates) ==
            [i \in 1..Len(templates) |-> parseIssueTemplateFile(commandLine, templates[i])]
        WithPullRequestTemplate(object) ==
            IF Has(object, "pullRequestTemplate")
            THEN Assign(object, "pullRequestTemplate",
                        parsePullRequestTemplateFile(commandLine, object.pullRequestTemplate))
            ELSE object
        WithIssueTemplates(repository) ==
            IF Has(repository, "issueTemplates")
            THEN Assign(repository, "issueTemplates", ParseAll(repository.issueTemplates))
            ELSE repository
    IN WithPullRequestTemplate(
           [cfg EXCEPT !.issueTemplates = ParseAll(@),
                       !.repositories = [i \in 1..Len(@) |->
                                            WithPullRequestTemplate(WithIssueTemplates(@[i]))]])

\* the templates of the organization added to those of the repository
configuredTemplates_merged(cfg, repositoryName) ==
    LET hasEntry == HasRepositoryConfig(cfg, repositoryName)
        repositoryConfig == RepositoryConfig(cfg, repositoryName)
        configuredIssueTemplates ==
            IF hasEntry /\ Has(repositoryConfig, "issueTemplates")
            THEN repositoryConfig.issueTemplates \o cfg.issueTemplates
            ELSE cfg.issueTemplates
    IN configuredIssueTemplates
       \o (IF hasEntry /\ Has(repositoryConfig, "pullRequestTemplate")
           THEN <<repositoryConfig.pullRequestTemplate>>
           ELSE IF Has(cfg, "pullRequestTemplate") THEN <<cfg.pullRequestTemplate>> ELSE <<>>)

\* (repositoryConfig && repositoryConfig.issueTemplates) || config.issueTemplates,
\* followed by (repositoryConfig && repositoryConfig.pullRequestTemplate)
\* || config.pullRequestTemplate if there is one
configuredTemplates(cfg, repositoryName) ==
    LET hasEntry == HasRepositoryConfig(cfg, repositoryName)
        repositoryConfig == RepositoryConfig(cfg, repositoryName)
        configuredIssueTemplates ==
            IF hasEntry /\ Has(repositoryConfig, "issueTemplates")
            THEN repositoryConfig.issueTemplates
            ELSE cfg.issueTemplates
    IN configuredIssueTemplates
       \o (IF hasEntry /\ Has(repositoryConfig, "pullRequestTemplate")
           THEN <<repositoryConfig.pullRequestTemplate>>
           ELSE IF Has(cfg, "pullRequestTemplate") THEN <<cfg.pullRequestTemplate>> ELSE <<>>)

IsPrefix(prefix, path) ==
    Len(prefix) <= Len(path) /\ SubSeq(path, 1, Len(prefix)) = prefix

\* yaml.safeLoad of the front matter: the name it gives, undefined (NULL)
\* for a file without front matter or without a name in it
metaDataName(rawFileContent) ==
    IF Has(rawFileContent, "metaData") /\ Has(rawFileContent.metaData, "name")
    THEN rawFileContent.metaData.name
    ELSE NULL

\* loadFileFromGithub and the meta data given to the loaded file
loadFileFromGithub(file, name) ==
    [ fileName |-> basename(file.path), githubPath |-> file.path,
      rawFileContent |-> file.content, metaData |-> [name |-> name] ]

\* the templates of the repository: the files of the directory of the
\* issue templates, then the pull request template if there is one
repoTemplates(files) ==
    LET issueTemplateFiles ==
            Filter(files, LAMBDA file : /\ IsPrefix(GITHUB_ISSUE_TEMPLATE_DIR, file.path)
                                        /\ Len(file.path) = Len(GITHUB_ISSUE_TEMPLATE_DIR) + 2)
        pullRequestTemplateFiles ==
            Filter(files, LAMBDA file : file.path = GITHUB_DIR \o PR_TEMPLATE_FILE_NAME)
    IN [i \in 1..Len(issueTemplateFiles) |->
            loadFileFromGithub(issueTemplateFiles[i], metaDataName(issueTemplateFiles[i].content))]
       \o (IF Len(pullRequestTemplateFiles) > 0
           THEN <<loadFileFromGithub(pullRequestTemplateFiles[1], PR_TEMPLATE_NAME)>>
           ELSE <<>>)

\* template names compared without regard to case
SameTemplateName_ignoringCase(template, repoTemplate) ==
    toLowerCase(template.name) = toLowerCase(repoTemplate.metaData.name)

\* template.name === repoTemplate.metaData.name
SameTemplateName(template, repoTemplate) == template.name = repoTemplate.metaData.name

repoTemplatesToDelete(configured, loaded) ==
    Filter(loaded, LAMBDA repoTemplate :
        ~Found(configured, LAMBDA template : SameTemplateName(template, repoTemplate)))

\* repoTemplates.filter(repoTemplate => !repoTemplatesToDelete.includes(repoTemplate))
keptRepoTemplates(configured, loaded) ==
    Filter(loaded, LAMBDA repoTemplate :
        Found(configured, LAMBDA template : SameTemplateName(template, repoTemplate)))

\* the kept templates whose text differs from the configured one
repoTemplatesToUpdate(configured, loaded) ==
    Filter(keptRepoTemplates(configured, loaded), LAMBDA repoTemplate :
        Find(configured, LAMBDA template : SameTemplateName(template, repoTemplate)).githubTemplateFile
            # repoTemplate.rawFileContent)

templatesToAdd(configured, loaded) ==
    Filter(configured, LAMBDA template :
        ~Found(keptRepoTemplates(configured, loaded),
               LAMBDA repoTemplate : SameTemplateName(template, repoTemplate)))

deleteFileCall(repositoryName, repoTemplate) ==
    [op |-> "deleteFile", repo |-> repositoryName, path |-> repoTemplate.githubPath,
     name |-> repoTemplate.metaData.name]

updateFileCall(repositoryName, configured, repoTemplate) ==
    [op |-> "updateFile", repo |-> repositoryName, path |-> repoTemplate.githubPath,
     name |-> repoTemplate.metaData.name,
     content |-> Find(configured, LAMBDA template :
                        SameTemplateName(template, repoTemplate)).githubTemplateFile]

\* createOrUpdateFile without the sha of a file: the file is created
addFileCall(repositoryName, newTemplate) ==
    [op |-> "createFile", repo |-> repositoryName, path |-> newTemplate.githubPath,
     name |-> newTemplate.name, content |-> newTemplate.githubTemplateFile]

TemplatePhases == <<"delete", "update", "add">>

templatePhaseCalls(phase, repositoryName, configured, loaded) ==
    CASE phase = "delete" ->
            LET elements == repoTemplatesToDelete(configured, loaded)
            IN [i \in 1..Len(elements) |-> deleteFileCall(repositoryName, elements[i])]
      [] phase = "update" ->
            LET elements == repoTemplatesToUpdate(configured, loaded)
            IN [i \in 1..Len(elements) |-> updateFileCall(repositoryName, configured, elements[i])]
      [] phase = "add" ->
            LET elements == templatesToAdd(configured, loaded)
            IN [i \in 1..Len(elements) |-> addFileCall(repositoryName, elements[i])]

FileExists(files, path) == \E i \in 1..Len(files) : files[i].path = path

\* the files of a repository after GitHub has carried out the call
applyFileCall(files, call) ==
    CASE call.op = "deleteFile" -> Filter(files, LAMBDA file : file.path # call.path)
      [] call.op = "updateFile" ->
            [i \in 1..Len(files) |->
                IF files[i].path = call.path
                THEN [path |-> call.path, content |-> call.content] ELSE files[i]]
      [] call.op = "createFile" -> Append(files, [path |-> call.path, content |-> call.content])

\* GitHub refuses to change or delete a file that is not there and to
\* create a file whose path is taken
FileCallAccepted(files, call) ==
    IF call.op = "createFile" THEN ~FileExists(files, call.path) ELSE FileExists(files, call.path)

\* the configuration is read, then the template files it names
IssueTemplatesReadConfig ==
    /\ command = "issue-templates"
    /\ pc = "start"
    /\ LET result == configReader(arg, rawConfig) IN
        IF result.threw
        THEN /\ pc' = Exit(-1)
             /\ error' = result.message
             /\ UNCHANGED config
        ELSE IF Len(templateErrors(arg, result.value)) > 0
        THEN /\ pc' = Exit(-1)
             /\ error' = templateErrors(arg, result.value)[1]
             /\ UNCHANGED config
        ELSE /\ pc' = "configured"
             /\ config' = withTemplateFiles(arg, result.value)
             /\ UNCHANGED error
    /\ UNCHANGED <<arg, ret, allGithubRepositories, command, rawConfig, github, repoIndex, local,
                   inflight, calls, failures>>

\* findOrg, then the list of the repositories that are neither archived nor
\* forks and are private unless --include-public-repos was given
IssueTemplatesLoadRepositories ==
    /\ command = "issue-templates"
    /\ pc = "configured"
    /\ IF ~github.orgVisible
       THEN /\ pc' = Exit(-1)
            /\ error' = Err("organization", -1, -1, "orgName", "does not exist or is not visible")
            /\ UNCHANGED <<allGithubRepositories, repoIndex>>
       ELSE LET repositories ==
                    Filter(github.repositories,
                           LAMBDA repository : /\ ~repository.archived
                                               /\ ~repository.fork
                                               /\ (repository.private \/ arg.includePublicRepos))
            IN /\ allGithubRepositories' = repositories
               /\ repoIndex' = 1
               /\ pc' = IF Len(repositories) = 0 THEN Exit(0) ELSE "repositories"
               /\ UNCHANGED error
    /\ UNCHANGED <<arg, ret, command, rawConfig, config, github, local, inflight, calls, failures>>

\* the callback starts: the templates are chosen, the templates of the
\* repository are loaded and the first part begins
IssueTemplatesSyncRepository ==
    /\ command = "issue-templates"
    /\ pc = "repositories"
    /\ local = Idle
    /\ LET repositoryName == allGithubRepositories[repoIndex].name
           configured == configuredTemplates(config, repositoryName)
           loaded == repoTemplates(github.files[repositoryName])
       IN local' = [phase |-> TemplatePhases[1], part |-> 1, repo |-> repositoryName,
                    configuredTemplates |-> configured, repoTemplates |-> loaded,
                    queue |-> templatePhaseCalls(TemplatePhases[1], repositoryName, configured, loaded)]
    /\ UNCHANGED <<arg, ret, allGithubRepositories, command, rawConfig, config, error, pc, github,
                   repoIndex, inflight, calls, failures>>

\* the templates of the repository cannot be loaded: the error is reported
\* and the callback returns
IssueTemplatesLoadFails ==
    /\ command = "issue-templates"
    /\ pc = "repositories"
    /\ local = Idle
    /\ failures < MaxFailures
    /\ failures' = failures + 1
    /\ repoIndex' = repoIndex + 1
    /\ pc' = NextRepositoryPc(allGithubRepositories, repoIndex)
    /\ UNCHANGED <<arg, ret, allGithubRepositories, command, rawConfig, config, error, github, local,
                   inflight, calls>>

\* sequentiallyAwaitEach: the call of the next element is made when the one
\* before has been answered
IssueTemplatesNextCall ==
    /\ command = "issue-templates"
    /\ pc = "repositories"
    /\ local # Idle
    /\ inflight = {}
    /\ Len(local.queue) > 0
    /\ inflight' = {Head(local.queue)}
    /\ local' = [local EXCEPT !.queue = Tail(@)]
    /\ calls' = Append(calls, StartEvent(Head(local.queue)))
    /\ UNCHANGED <<arg, ret, allGithubRepositories, command, rawConfig, config, error, pc, github,
                   repoIndex, failures>>

\* GitHub carries out the file call in flight
IssueTemplatesCallSucceeds ==
    /\ command = "issue-templates"
    /\ pc = "repositories"
    /\ \E call \in inflight :
        /\ FileCallAccepted(github.files[call.repo], call)
        /\ inflight' = inflight \ {call}
        /\ github' = [github EXCEPT !.files[call.repo] = applyFileCall(@, call)]
        /\ calls' = Append(calls, EndEvent(call, 200))
    /\ UNCHANGED <<arg, ret, allGithubRepositories, command, rawConfig, config, error, pc,
                   repoIndex, local, failures>>

\* GitHub refuses the file call in flight: the error is caught and reported
\* and the callback returns
IssueTemplatesCallRefused ==
    /\ command = "issue-templates"
    /\ pc = "repositories"
    /\ \E call \in inflight :
        /\ ~FileCallAccepted(github.files[call.repo], call)
        /\ inflight' = inflight \ {call}
        /\ calls' = Append(calls, EndEvent(call, 422))
    /\ local' = Idle
    /\ repoIndex' = repoIndex + 1
    /\ pc' = NextRepositoryPc(allGithubRepositories, repoIndex)
    /\ UNCHANGED <<arg, ret, allGithubRepositories, command, rawConfig, config, error, github, failures>>

\* GitHub answers the file call in flight with an error: the error is caught
\* and reported and the callback returns
IssueTemplatesCallFails ==
    /\ command = "issue-templates"
    /\ pc = "repositories"
    /\ failures < MaxFailures
    /\ \E call \in inflight, status \in ErrorStatuses :
        /\ inflight' = inflight \ {call}
        /\ calls' = Append(calls, EndEvent(call, status))
    /\ failures' = failures + 1
    /\ local' = Idle
    /\ repoIndex' = repoIndex + 1
    /\ pc' = NextRepositoryPc(allGithubRepositories, repoIndex)
    /\ UNCHANGED <<arg, ret, allGithubRepositories, command, rawConfig, config, error, github>>

\* sequentiallyAwaitEach of one part has resolved: the next part begins, or
\* the callback returns
IssueTemplatesNextPart ==
    /\ command = "issue-templates"
    /\ pc = "repositories"
    /\ local # Idle
    /\ inflight = {}
    /\ Len(local.queue) = 0
    /\ IF local.part < Len(TemplatePhases)
       THEN /\ local' = [local EXCEPT
                            !.part = @ + 1,
                            !.phase = TemplatePhases[local.part + 1],
                            !.queue = templatePhaseCalls(TemplatePhases[local.part + 1], local.repo,
                                                         local.configuredTemplates, local.repoTemplates)]
            /\ UNCHANGED <<pc, repoIndex>>
       ELSE /\ local' = Idle
            /\ repoIndex' = repoIndex + 1
            /\ pc' = NextRepositoryPc(allGithubRepositories, repoIndex)
    /\ UNCHANGED <<arg, ret, allGithubRepositories, command, rawConfig, config, error, github,
                   inflight, calls, failures>>

IssueTemplates ==
    \/ IssueTemplatesReadConfig
    \/ IssueTemplatesLoadRepositories
    \/ IssueTemplatesSyncRepository
    \/ IssueTemplatesLoadFails
    \/ IssueTemplatesNextCall
    \/ IssueTemplatesCallSucceeds
    \/ IssueTemplatesCallRefused
    \/ IssueTemplatesCallFails
    \/ IssueTemplatesNextPart

----------------------------------------------------------------------------
(* Inputs: configuration files, documents and live states *)

MaxLabels == 2
MaxLiveLabels == 2

\* the command line: the configuration file and the option --clear-collaborators
CommandLine(clearCollaborators) ==
    [exists |-> TRUE, extension |-> ".yml", wellFormed |-> TRUE,
     clearCollaborators |-> clearCollaborators]

\* command lines that name a file that does not exist, a file with an
\* extension that is not supported, a file that cannot be parsed, and a
\* file whose extension is written in upper case
OtherCommandLines ==
    { [CommandLine(FALSE) EXCEPT !.exists = FALSE],
      [CommandLine(FALSE) EXCEPT !.extension = ".txt"],
      [CommandLine(FALSE) EXCEPT !.wellFormed = FALSE],
      [CommandLine(FALSE) EXCEPT !.extension = ".YML"] }

orgName == <<"a","c","m","e">>

bug == <<"b","u","g">>
Bug == <<"B","u","g">>
doc == <<"d","o","c">>
old == <<"o","l","d">>
new == <<"n","e","w">>

\* colours a configuration may give: valid ones in lower, upper and mixed
\* case with three and six characters, and invalid ones that are too short,
\* too long, empty or hold a character that is no hex digit
ColourSamples ==
    { <<"f","0","0">>, <<"F","0","0">>, <<"a","B","c","1","2","3">>, <<"0","9","a","F">>,
      <<"a","b">>, <<"a","b","c","d","e","f","0">>, <<>>, <<"g","0","0">>, <<"#","f","0","0">> }

somedescription == <<"d">>

\* a label of a configuration, without and with a description
Label(name, color) == [name |-> name, color |-> color]
DescribedLabel(name, color, description) ==
    [name |-> name, color |-> color, description |-> description]

\* a label as GitHub lists it
LiveLabel(name, color, description) ==
    [name |-> name, color |-> color, description |-> description]

svc == <<"s","v","c">>
other == <<"o","t","h","e","r">>
attic == <<"a","t","t","i","c">>

SvcRepository == [name |-> svc, archived |-> FALSE, has_issues |-> TRUE, private |-> TRUE, fork |-> FALSE]
OtherRepository == [name |-> other, archived |-> FALSE, has_issues |-> TRUE, private |-> TRUE, fork |-> FALSE]
AtticRepository == [name |-> attic, archived |-> TRUE, has_issues |-> TRUE, private |-> TRUE, fork |-> FALSE]

RepositoryNames == {svc, other, attic}

Core == <<"C","o","r","e">>
Ops == <<"O","p","s">>
Guests == <<"G","u","e","s","t","s">>
Ghost == <<"G","h","o","s","t">>

TeamNames == {Core, Ops, Guests}

GithubTeam(name) == [name |-> name, slug |-> name]

\* an organization without anything in its repositories
EmptyGithub(repositories) ==
    [ orgVisible |-> TRUE,
      repositories |-> repositories,
      labels |-> [name \in RepositoryNames |-> <<>>],
      teams |-> <<>>,
      permissions |-> [name \in RepositoryNames |-> [team \in TeamNames |-> NULL]],
      collaborators |-> [name \in RepositoryNames |-> {}],
      branches |-> [name \in RepositoryNames |-> <<>>],
      files |-> [name \in RepositoryNames |-> <<>>] ]

OrgLabels ==
    { Label(bug, <<"f","0","0">>),
      DescribedLabel(doc, <<"0","a","0">>, somedescription),
      DescribedLabel(Bug, <<"F","0","0">>, somedescription) }

RepositoryLabelLists ==
    { <<>>,
      << DescribedLabel(doc, <<"0","A","0">>, somedescription) >>,
      << Label(new, <<"a","b","c">>) >>,
      << Label(bug, <<"f","0","0">>), DescribedLabel(doc, <<"0","a","0">>, somedescription) >> }

LiveLabels ==
    { LiveLabel(bug, <<"f","0","0">>, NULL),
      LiveLabel(Bug, <<"0","a","0">>, somedescription),
      LiveLabel(doc, <<"0","a","0">>, somedescription),
      LiveLabel(old, <<"1","1","1">>, NULL) }

\* GitHub keeps the label names of a repository distinct, ignoring case
LiveLabelLists ==
    { labels \in SeqsUpTo(LiveLabels, MaxLiveLabels) :
        \A i, j \in 1..Len(labels) :
            i # j => toLowerCase(labels[i].name) # toLowerCase(labels[j].name) }

\* the entries a configuration may hold for repository 'svc'
LabelRepositoryEntries ==
    { [name |-> svc] }
    \cup { [name |-> svc, issueLabels |-> labels] : labels \in RepositoryLabelLists }
    \cup { [name |-> svc, additionalIssueLabels |-> labels] : labels \in RepositoryLabelLists }
    \cup { [name |-> svc, issueLabels |-> <<>>, additionalIssueLabels |-> <<>>],
           [name |-> svc, issueLabels |-> << Label(new, <<"a","b","c">>) >>,
            additionalIssueLabels |-> << Label(old, <<"1","1","1">>) >>] }

\* documents whose labels differ in name, colour and description
LabelDocuments ==
    LET bases == { [orgName |-> orgName] }
                 \cup { [orgName |-> orgName, issueLabels |-> labels] :
                            labels \in SeqsUpTo(OrgLabels, MaxLabels) }
    IN bases \cup { Assign(base, "repositories", <<entry>>) :
                        base \in bases, entry \in LabelRepositoryEntries }

\* documents whose labels differ in colour only
ColourDocuments ==
    LET bases == { [orgName |-> orgName, issueLabels |-> << Label(bug, color) >>] :
                        color \in ColourSamples }
    IN bases
       \cup { Assign(base, "repositories",
                     << [name |-> svc, issueLabels |-> << Label(doc, color) >>] >>) :
                 base \in bases, color \in ColourSamples }
       \cup { Assign(base, "repositories",
                     << [name |-> svc, additionalIssueLabels |-> << Label(doc, color) >>] >>) :
                 base \in bases, color \in ColourSamples }

LabelGithubStates ==
    { [EmptyGithub(<<AtticRepository, SvcRepository>>) EXCEPT !.labels[svc] = svcLabels] :
        svcLabels \in LiveLabelLists }
    \cup
    { [EmptyGithub(<<SvcRepository, OtherRepository>>) EXCEPT
            !.labels[svc] = svcLabels, !.labels[other] = otherLabels] :
        svcLabels \in { <<>>, << LiveLabel(doc, <<"0","a","0">>, somedescription) >>,
                         << LiveLabel(old, <<"1","1","1">>, NULL) >> },
        otherLabels \in { <<>>, << LiveLabel(Bug, <<"0","a","0">>, somedescription) >> } }

\* permission values a configuration may give: null, recognised spellings
\* in lower, upper and mixed case, and values that are not recognised
PermissionSamples ==
    { NULL, <<"A","D","M","I","N">>, read, <<"W","r","i","t","e">>, none, <<"P","u","l","l">>,
      <<"o","w","n","e","r">>, <<"r","e","a">>, <<>>, <<"n","u","l","l">> }

Team(name, defaultPermission) == [name |-> name, defaultPermission |-> defaultPermission]
TeamPermission(teamName, permission) == [teamName |-> teamName, permission |-> permission]

\* documents whose permission values differ
PermissionDocuments ==
    LET bases == { [orgName |-> orgName, teams |-> << Team(Core, permission) >>] :
                        permission \in PermissionSamples }
    IN bases
       \cup { Assign(base, "repositories",
                     << [name |-> svc, teamPermissions |-> << TeamPermission(Core, permission) >>] >>) :
                 base \in bases, permission \in PermissionSamples }

TeamLists ==
    { <<>>,
      << Team(Core, <<"A","D","M","I","N">>) >>,
      << Team(Core, NULL) >>,
      << Team(Core, admin), Team(Ops, read) >>,
      << Team(Core, none), Team(Ops, <<"W","R","I","T","E">>) >>,
      << Team(Core, admin), Team(Core, push) >> }

TeamPermissionLists ==
    { <<>>,
      << TeamPermission(Core, pull) >>,
      << TeamPermission(Core, NULL) >>,
      << TeamPermission(Ops, admin) >>,
      << TeamPermission(Core, <<"R","E","A","D">>), TeamPermission(Core, admin) >>,
      << TeamPermission(Ghost, pull) >>,
      << TeamPermission(Core, none), TeamPermission(Ops, NULL) >> }

TeamRepositoryEntries ==
    { [name |-> svc], [name |-> svc, clearCollaborators |-> FALSE],
      [name |-> svc, clearCollaborators |-> TRUE, teamPermissions |-> << TeamPermission(Core, pull) >>],
      [name |-> other, teamPermissions |-> << TeamPermission(Core, pull) >>] }
    \cup { [name |-> svc, teamPermissions |-> permissions] : permissions \in TeamPermissionLists }

\* documents whose teams and special permissions differ
TeamDocuments ==
    LET bases == { [orgName |-> orgName] }
                 \cup { [orgName |-> orgName, teams |-> teams] : teams \in TeamLists }
    IN bases \cup { Assign(base, "repositories", <<entry>>) :
                        base \in bases, entry \in TeamRepositoryEntries }

alice == <<"a","l","i","c","e">>
bob == <<"b","o","b">>

TeamGithubStates ==
    { [EmptyGithub(repositories) EXCEPT
            !.teams = teams,
            !.permissions[svc][Core] = corePermission,
            !.permissions[svc][Ops] = opsPermission,
            !.permissions[svc][Guests] = push,
            !.permissions[other][Core] = pull,
            !.permissions[other][Guests] = admin,
            !.collaborators[svc] = collaborators,
            !.collaborators[other] = {alice}] :
        repositories \in { <<SvcRepository>>, <<SvcRepository, OtherRepository>> },
        teams \in { << GithubTeam(Guests), GithubTeam(Core), GithubTeam(Ops) >>,
                    << GithubTeam(Core) >> },
        corePermission \in {NULL, push},
        opsPermission \in {NULL, admin},
        collaborators \in { {}, {alice, bob} } }

InitCommand(name) ==
    /\ command = name
    /\ ret = Nothing
    /\ config = Nothing
    /\ error = Nothing
    /\ pc = "start"
    /\ allGithubRepositories = <<>>
    /\ repoIndex = 0
    /\ local = Idle
    /\ inflight = {}
    /\ calls = <<>>
    /\ failures = 0

InitIssueLabels ==
    /\ InitCommand("issue-labels")
    /\ arg = CommandLine(FALSE)
    /\ \/ /\ rawConfig \in LabelDocuments
          /\ github \in LabelGithubStates
       \/ /\ rawConfig \in ColourDocuments
          /\ github = [EmptyGithub(<<SvcRepository>>) EXCEPT
                            !.labels[svc] = << LiveLabel(bug, <<"f","0","0">>, NULL) >>]

InitRepositoryPermissions ==
    /\ InitCommand("repository-permissions")
    /\ \/ /\ rawConfig \in TeamDocuments
          /\ github \in TeamGithubStates
          /\ arg \in { CommandLine(option) : option \in BOOLEAN }
       \/ /\ rawConfig \in PermissionDocuments
          /\ github = [EmptyGithub(<<SvcRepository>>) EXCEPT !.teams = << GithubTeam(Core) >>]
          /\ arg = CommandLine(FALSE)
       \/ /\ rawConfig = [orgName |-> orgName, teams |-> << Team(Core, admin) >>]
          /\ github = [EmptyGithub(<<SvcRepository>>) EXCEPT
                            !.teams = << GithubTeam(toLowerCase(Core)) >>]
          /\ arg = CommandLine(FALSE)

main == <<"m","a","i","n">>
dev == <<"d","e","v">>
ci == <<"c","i">>

\* rules of protectedBranches: without sections, with requireReviews, with
\* requireStatusChecks without and with statusChecks, and one without a name
PlainRule == [name |-> main]
ReviewRule ==
    [name |-> main,
     requireReviews |-> [dismissApprovalWhenChanged |-> TRUE, requireCodeOwnerReview |-> FALSE]]
DevRule == [name |-> dev, requireStatusChecks |-> [requireBranchUpToDate |-> TRUE]]
LinearRule ==
    [name |-> main, requireStatusChecks |-> [statusChecks |-> <<ci>>],
     requireLinearHistory |-> JsBoolean(TRUE)]
NamelessRule == [name |-> <<>>]

\* rules with requireLinearHistory false, and with a requireLinearHistory
\* that is no boolean
MergeRule == [name |-> dev, requireLinearHistory |-> JsBoolean(FALSE)]
BadLinearRule == [name |-> main, requireLinearHistory |-> JsString(<<"y","e","s">>)]

OrgRuleLists ==
    { <<>>, <<PlainRule>>, <<ReviewRule, DevRule>>, <<LinearRule>>, <<NamelessRule>>,
      <<BadLinearRule>> }

RepositoryRuleLists ==
    { <<>>, <<DevRule>>, <<PlainRule>>, <<ReviewRule>>, <<MergeRule>>, <<BadLinearRule>> }

SettingsRepositoryEntries ==
    { [name |-> svc], [name |-> svc, settings |-> EmptyObject] }
    \cup { [name |-> svc, settings |-> [protectedBranches |-> rules]] : rules \in RepositoryRuleLists }

\* documents whose protected branches differ
SettingsDocuments ==
    LET bases == { [orgName |-> orgName], [orgName |-> orgName, repositorySettings |-> EmptyObject] }
                 \cup { [orgName |-> orgName, repositorySettings |-> [protectedBranches |-> rules]] :
                            rules \in OrgRuleLists }
    IN bases \cup { Assign(base, "repositories", <<entry>>) :
                        base \in bases, entry \in SettingsRepositoryEntries }

Unprotected(name) == [name |-> name, protected |-> FALSE, protection |-> nullObject]
Protected(name, rule) == [name |-> name, protected |-> TRUE, protection |-> protectionConfig(rule)]

BranchLists ==
    { <<>>,
      << Unprotected(main) >>,
      << Unprotected(main), Protected(dev, defaultBranchSettings(DevRule)) >>,
      << Protected(main, PlainRule), Unprotected(dev) >>,
      << Protected(main, ReviewRule), Protected(dev, defaultBranchSettings(DevRule)) >> }

SettingsGithubStates ==
    { [EmptyGithub(<<SvcRepository>>) EXCEPT !.branches[svc] = branches] : branches \in BranchLists }
    \cup
    { [EmptyGithub(<<SvcRepository, OtherRepository>>) EXCEPT
            !.branches[svc] = branches, !.branches[other] = << Protected(main, PlainRule) >>] :
        branches \in BranchLists }

InitRepositorySettings ==
    /\ InitCommand("repository-settings")
    /\ \/ /\ arg = CommandLine(FALSE)
          /\ rawConfig \in SettingsDocuments
          /\ github \in SettingsGithubStates
       \/ /\ arg \in OtherCommandLines
          /\ rawConfig = [orgName |-> orgName,
                          repositorySettings |-> [protectedBranches |-> <<PlainRule>>]]
          /\ github = [EmptyGithub(<<SvcRepository>>) EXCEPT
                            !.branches[svc] = << Unprotected(main), Unprotected(dev) >>]
       \/ /\ arg = CommandLine(FALSE)
          /\ rawConfig = [orgName |-> orgName,
                          repositorySettings |-> [protectedBranches |-> <<PlainRule>>]]
          /\ github = [EmptyGithub(<<SvcRepository>>) EXCEPT
                            !.branches[svc] = << Unprotected(main),
                                                 Protected(<<"M","a","i","n">>, PlainRule) >>]

\* the command line of issue-templates: the configuration file, the option
\* --include-public-repos and the files next to the configuration file
TemplateCommandLine(includePublicRepos) ==
    [ exists |-> TRUE, extension |-> ".yml", wellFormed |-> TRUE,
      includePublicRepos |-> includePublicRepos,
      configPath |-> <<"etc", "config", ".yml">>,
      files |-> [path \in { <<"etc", "tpl", "bug", ".md">>, <<"etc", "tpl", "feat", ".md">>,
                            <<"etc", "alt", "bug", ".md">>, <<"etc", "tpl", "pr", ".md">>,
                            <<"etc", "alt", "pr", ".md">>, <<"etc", "tpl", "bug", ".txt">> }
                    |-> IF path[2] = "alt" THEN "text of alt " \o path[3] ELSE "text of " \o path[3]] ]

feat == <<"f","e","a","t">>
about == <<"a","b","o","u","t">>

IssueTemplate(name, templateFile) ==
    [name |-> name, description |-> about, templateFile |-> templateFile]
PullRequestTemplate(templateFile) == [templateFile |-> templateFile]

\* template lists of the organization: valid ones, and ones with a name
\* that is too short, a file that is no '.md' file and a file that is missing
OrgTemplateLists ==
    { << IssueTemplate(bug, <<"tpl", "bug", ".md">>) >>,
      << IssueTemplate(bug, <<"tpl", "bug", ".md">>), IssueTemplate(feat, <<"tpl", "feat", ".md">>) >>,
      << IssueTemplate(Bug, <<"tpl", "bug", ".md">>) >>,
      << IssueTemplate(<<"n","o">>, <<"tpl", "bug", ".md">>) >>,
      << IssueTemplate(bug, <<"tpl", "bug", ".txt">>) >>,
      << IssueTemplate(bug, <<"tpl", "gone", ".md">>) >> }

RepositoryTemplateLists ==
    { <<>>,
      << IssueTemplate(feat, <<"tpl", "feat", ".md">>) >>,
      << IssueTemplate(feat, <<"alt", "bug", ".md">>), IssueTemplate(doc, <<"tpl", "bug", ".md">>) >> }

TemplateRepositoryEntries ==
    LET bases == { [name |-> svc] }
                 \cup { [name |-> svc, issueTemplates |-> templates] :
                            templates \in RepositoryTemplateLists }
    IN bases \cup { Assign(base, "pullRequestTemplate", PullRequestTemplate(<<"alt", "pr", ".md">>)) :
                        base \in bases }

\* documents whose templates differ
TemplateDocuments ==
    LET lists == { [orgName |-> orgName] }
                 \cup { [orgName |-> orgName, issueTemplates |-> templates] :
                            templates \in OrgTemplateLists }
        bases == lists \cup { Assign(base, "pullRequestTemplate",
                                     PullRequestTemplate(<<"tpl", "pr", ".md">>)) : base \in lists }
    IN bases \cup { Assign(base, "repositories", <<entry>>) :
                        base \in bases, entry \in TemplateRepositoryEntries }

\* a file of a repository: an issue template with front matter, a file of
\* the directory of the issue templates without front matter, a pull
\* request template
IssueTemplateFile(base, name, body) ==
    [ path |-> GITHUB_ISSUE_TEMPLATE_DIR \o <<base, ".md">>,
      content |-> [metaData |-> [name |-> name, about |-> about], body |-> body] ]
PlainFile(path, body) == [path |-> path, content |-> [body |-> body]]

FileLists ==
    { <<>>,
      << IssueTemplateFile("bug", bug, "text of bug") >>,
      << IssueTemplateFile("bug", bug, "old text"), IssueTemplateFile("old", old, "old text") >>,
      << PlainFile(GITHUB_ISSUE_TEMPLATE_DIR \o <<"notes", ".md">>, "notes"),
         PlainFile(GITHUB_DIR \o PR_TEMPLATE_FILE_NAME, "old text") >>,
      << IssueTemplateFile("bug", feat, "text of feat") >>,
      << IssueTemplateFile("bug", Bug, "text of bug"),
         PlainFile(GITHUB_DIR \o PR_TEMPLATE_FILE_NAME, "text of pr"),
         PlainFile(GITHUB_DIR \o <<"workflows", "ci", ".yml">>, "on: push") >> }

PublicRepository == [OtherRepository EXCEPT !.private = FALSE]
ForkRepository == [AtticRepository EXCEPT !.archived = FALSE, !.fork = TRUE]

TemplateGithubStates ==
    { [EmptyGithub(repositories) EXCEPT
            !.files[svc] = files,
            !.files[other] = << IssueTemplateFile("bug", bug, "text of bug") >>] :
        repositories \in { <<SvcRepository>>, <<ForkRepository, SvcRepository, PublicRepository>> },
        files \in FileLists }

\* a document with an issue template that bears the name the command gives
\* to the pull request template
ReservedNameDocument ==
    [ orgName |-> orgName,
      issueTemplates |-> << IssueTemplate(PR_TEMPLATE_NAME, <<"tpl", "feat", ".md">>) >>,
      pullRequestTemplate |-> PullRequestTemplate(<<"tpl", "pr", ".md">>) ]

InitIssueTemplates ==
    /\ InitCommand("issue-templates")
    /\ \/ /\ arg \in { TemplateCommandLine(option) : option \in BOOLEAN }
          /\ rawConfig \in TemplateDocuments
          /\ github \in TemplateGithubStates
       \/ /\ arg = TemplateCommandLine(FALSE)
          /\ rawConfig = ReservedNameDocument
          /\ github \in { [EmptyGithub(<<SvcRepository>>) EXCEPT !.files[svc] = files] :
                            files \in { <<>>,
                                        << PlainFile(GITHUB_DIR \o PR_TEMPLATE_FILE_NAME, "old text") >> } }

IssueLabels ==
    \/ IssueLabelsReadConfig
    \/ IssueLabelsLoadRepositories
    \/ IssueLabelsSyncRepository
    \/ IssueLabelsCallSucceeds
    \/ IssueLabelsCallFails
    \/ IssueLabelsNextPart

----------------------------------------------------------------------------
(* Specification of the commands *)

\* each command with a valid configuration whose organization does not
\* exist or is not visible to the account
InitInvisibleOrganization ==
    /\ \/ /\ InitCommand("issue-labels")
          /\ arg = CommandLine(FALSE)
          /\ rawConfig = [orgName |-> orgName, issueLabels |-> << Label(bug, <<"f","0","0">>) >>]
       \/ /\ InitCommand("repository-permissions")
          /\ arg = CommandLine(TRUE)
          /\ rawConfig = [orgName |-> orgName, teams |-> << Team(Core, admin) >>]
       \/ /\ InitCommand("repository-settings")
          /\ arg = CommandLine(FALSE)
          /\ rawConfig = [orgName |-> orgName,
                          repositorySettings |-> [protectedBranches |-> <<PlainRule>>]]
       \/ /\ InitCommand("issue-templates")
          /\ arg = TemplateCommandLine(TRUE)
          /\ rawConfig = [orgName |-> orgName,
                          issueTemplates |-> << IssueTemplate(bug, <<"tpl", "bug", ".md">>) >>]
    /\ github = [EmptyGithub(<<SvcRepository>>) EXCEPT
                      !.orgVisible = FALSE,
                      !.teams = << GithubTeam(Core) >>,
                      !.labels[svc] = << LiveLabel(old, <<"f","0","0">>, NULL) >>,
                      !.collaborators[svc] = {alice},
                      !.branches[svc] = << Unprotected(main) >>,
                      !.files[svc] = << IssueTemplateFile("old", old, "old text") >>]

Init ==
    \/ InitIssueLabels
    \/ InitRepositoryPermissions
    \/ InitRepositorySettings
    \/ InitIssueTemplates
    \/ InitInvisibleOrganization

Next ==
    \/ LimiterStart
    \/ IssueLabels
    \/ RepositoryPermissions
    \/ RepositorySettings
    \/ IssueTemplates

Spec == Init /\ [][Next]_vars

----------------------------------------------------------------------------
(* Specification of the permission parser applied to one input *)

InitParse ==
    /\ arg \in PermissionInputs
    /\ ret = Nothing
    /\ pc = "call"
    /\ command = "parsePermissionString"
    /\ rawConfig = Nothing /\ config = Nothing /\ error = Nothing
    /\ github = Nothing /\ allGithubRepositories = <<>> /\ repoIndex = 0 /\ local = Idle
    /\ inflight = {} /\ calls = <<>> /\ failures = 0

ParsePermission ==
    /\ command = "parsePermissionString"
    /\ pc = "call"
    /\ ret' = parsePermissionString(arg)
    /\ pc' = "returned"
    /\ UNCHANGED <<arg, command, rawConfig, config, error, github, allGithubRepositories,
                   repoIndex, local, inflight, calls, failures>>

NextParse == ParsePermission

SpecParse == InitParse /\ [][NextParse]_vars

\* the canonical permission the documentation gives for a lower-case spelling
CanonicalOf(spelling) ==
    CASE spelling = none -> NULL
      [] spelling = read -> pull
      [] spelling = pull -> pull
      [] spelling = write -> push
      [] spelling = push -> push
      [] spelling = admin -> admin

CanonicalPermissions == {NULL, pull, push, admin}

\* C1: parsePermissionString maps null to null and, ignoring letter case,
\* none to null, read and pull to pull, write and push to push, admin to
\* admin; for a recognised spelling the result is the same for the input, the
\* input upper-cased and the input lower-cased; a returned value is always one
\* of null, pull, push, admin.
C1_ParsePermission ==
    pc = "returned" =>
        /\ (arg = NULL => ret = Return(NULL))
        /\ (arg # NULL /\ toLowerCase(arg) \in RecognisedSpellings =>
                /\ ret = Return(CanonicalOf(toLowerCase(arg)))
                /\ parsePermissionString(toUpperCase(arg)) = ret
                /\ parsePermissionString(toLowerCase(arg)) = ret)
        /\ (~ret.threw => ret.value \in CanonicalPermissions)

\* a mixed-case spelling has been parsed
C1_Witness ==
    /\ pc = "returned"
    /\ arg = <<"W","r","I","t","E">>
    /\ ret = Return(push)

----------------------------------------------------------------------------
(* Properties of the configuration reader *)

RawRepositories == IF Has(rawConfig, "repositories") THEN rawConfig.repositories ELSE <<>>

LabelsAt(object, key) == IF Has(object, key) THEN object[key] ELSE <<>>

\* every issue label the document holds, at organization level and in the
\* two label fields of its repository entries
RawIssueLabels ==
    { LabelsAt(rawConfig, "issueLabels")[i] : i \in 1..Len(LabelsAt(rawConfig, "issueLabels")) }
    \cup UNION { { LabelsAt(RawRepositories[r], key)[i] :
                     i \in 1..Len(LabelsAt(RawRepositories[r], key)) } :
                 r \in 1..Len(RawRepositories), key \in {"issueLabels", "additionalIssueLabels"} }

\* every issue label the loaded configuration holds
StoredIssueLabels ==
    { config.issueLabels[i] : i \in 1..Len(config.issueLabels) }
    \cup UNION { { LabelsAt(config.repositories[r], key)[i] :
                     i \in 1..Len(LabelsAt(config.repositories[r], key)) } :
                 r \in 1..Len(config.repositories), key \in {"issueLabels", "additionalIssueLabels"} }

RawTeams == IF Has(rawConfig, "teams") THEN rawConfig.teams ELSE <<>>

RawTeamPermissions(repository) ==
    IF Has(repository, "teamPermissions") THEN repository.teamPermissions ELSE <<>>

\* every permission value the document holds
RawPermissionValues ==
    { RawTeams[i].defaultPermission : i \in 1..Len(RawTeams) }
    \cup UNION { { RawTeamPermissions(RawRepositories[r])[j].permission :
                     j \in 1..Len(RawTeamPermissions(RawRepositories[r])) } :
                 r \in 1..Len(RawRepositories) }

Recognised(permission) == permission = NULL \/ toLowerCase(permission) \in RecognisedSpellings

\* the canonical permission of a value of the document
Canonical(permission) ==
    IF permission = NULL THEN NULL ELSE CanonicalOf(toLowerCase(permission))

\* C2: every permission value of the configuration (a team's
\* defaultPermission, a repository's teamPermissions[j].permission) that is
\* neither null nor a recognised spelling makes the load fail with an error;
\* no default replaces it, and after a successful load every stored
\* permission is one of null, pull, push, admin.
C2_PermissionValues ==
    (command = "repository-permissions" /\ pc # "start") =>
        /\ (\E permission \in RawPermissionValues : ~Recognised(permission)) =>
              /\ pc = "failed"
              /\ config = Nothing
              /\ error.field \in {"defaultPermission", "permission"}
        /\ config # Nothing =>
              /\ \A i \in 1..Len(config.teams) :
                    /\ config.teams[i].defaultPermission \in CanonicalPermissions
                    /\ config.teams[i].defaultPermission = Canonical(RawTeams[i].defaultPermission)
              /\ \A r \in 1..Len(config.repositories) :
                    \A j \in 1..Len(config.repositories[r].teamPermissions) :
                        /\ config.repositories[r].teamPermissions[j].permission \in CanonicalPermissions
                        /\ config.repositories[r].teamPermissions[j].permission
                              = Canonical(RawTeamPermissions(RawRepositories[r])[j].permission)

\* a special permission that is no recognised spelling has been rejected
C2_Witness ==
    /\ command = "repository-permissions"
    /\ pc = "failed"
    /\ error.field = "permission"
    /\ Recognised(RawTeams[1].defaultPermission)
    /\ \E permission \in RawPermissionValues : permission = <<"o","w","n","e","r">>

SetsBothLabelFields(repository) ==
    Has(repository, "issueLabels") /\ Has(repository, "additionalIssueLabels")

SomeRepositorySetsBoth ==
    \E r \in 1..Len(RawRepositories) : SetsBothLabelFields(RawRepositories[r])

\* ^[a-fA-F0-9]{3,6}$, written out
IsHexColour(color) ==
    /\ Len(color) \in 3..6
    /\ \A i \in 1..Len(color) :
          color[i] \in {"0","1","2","3","4","5","6","7","8","9",
                        "a","b","c","d","e","f","A","B","C","D","E","F"}

ColourRejected == pc = "failed" /\ error.field = "color"

\* C3: for every issue label of the configuration, at organization level and
\* in a repository's issueLabels or additionalIssueLabels, validation accepts
\* the colour exactly when it matches ^[a-fA-F0-9]{3,6}$, the loaded
\* configuration stores the colour lower-cased, and any other colour makes
\* validation fail naming the color field.
C3_LabelColours ==
    (command = "issue-labels" /\ pc # "start" /\ ~SomeRepositorySetsBoth) =>
        /\ ColourRejected <=> (\E label \in RawIssueLabels : ~IsHexColour(label.color))
        /\ config # Nothing =>
              \A label \in StoredIssueLabels : label.color = toLowerCase(label.color)

\* C4: a configuration in which some repository entry sets both issueLabels
\* and additionalIssueLabels fails to load with a configuration error,
\* whatever the two lists contain, and no API call is made.
C4_BothLabelFields ==
    (command = "issue-labels" /\ SomeRepositorySetsBoth) =>
        /\ pc \in {"start", "failed"}
        /\ config = Nothing
        /\ pc = "failed" => (error # Nothing /\ error.where # "api")
        /\ calls = <<>> /\ inflight = {} /\ allGithubRepositories = <<>>

\* a configuration whose repository entry sets both fields to empty lists
\* has been rejected
C4_Witness ==
    /\ command = "issue-labels"
    /\ pc = "failed"
    /\ \E r \in 1..Len(RawRepositories) :
          /\ SetsBothLabelFields(RawRepositories[r])
          /\ RawRepositories[r].issueLabels = <<>>
          /\ RawRepositories[r].additionalIssueLabels = <<>>
    /\ Len(LabelsAt(rawConfig, "issueLabels")) > 0

\* the same label but for the letter case of the colour
SameLabel(a, b) ==
    /\ a.name = b.name
    /\ toLowerCase(a.color) = toLowerCase(b.color)
    /\ DescriptionOrNull(a) = DescriptionOrNull(b)

SameLabels(as, bs) ==
    /\ Len(as) = Len(bs)
    /\ \A i \in 1..Len(as) : SameLabel(as[i], bs[i])

RawEntries(repositoryName) ==
    Filter(RawRepositories, LAMBDA repository : repository.name = repositoryName)

\* the desired labels of a repository as the documentation describes them
DocumentedIssueLabels(repositoryName) ==
    LET entries == RawEntries(repositoryName)
        orgLabels == LabelsAt(rawConfig, "issueLabels")
    IN IF Len(entries) > 0 /\ Has(entries[1], "issueLabels") THEN entries[1].issueLabels
       ELSE IF Len(entries) > 0 /\ Has(entries[1], "additionalIssueLabels")
       THEN orgLabels \o entries[1].additionalIssueLabels
       ELSE orgLabels

\* C5: the desired label list of a repository is the repository entry's
\* issueLabels if it sets them; otherwise the org issueLabels followed, in
\* order, by the entry's additionalIssueLabels if it sets them; otherwise
\* the org issueLabels alone.
C5_ExpectedIssueLabels ==
    (command = "issue-labels" /\ local # Idle) =>
        SameLabels(local.expected, DocumentedIssueLabels(local.repo))

\* org labels and additional labels, both not empty, are the desired labels
C5_Witness ==
    /\ command = "issue-labels"
    /\ local # Idle
    /\ Len(RawEntries(local.repo)) > 0
    /\ Has(RawEntries(local.repo)[1], "additionalIssueLabels")
    /\ Len(RawEntries(local.repo)[1].additionalIssueLabels) > 0
    /\ Len(local.expected) > Len(RawEntries(local.repo)[1].additionalIssueLabels)

----------------------------------------------------------------------------
(* Properties of the command repository-permissions *)

\* the permission of a team for a repository as the documentation describes
\* it, from the document
DocumentedPermission(team, repositoryName) ==
    LET entries == RawEntries(repositoryName)
        special == IF Len(entries) > 0
                   THEN Filter(RawTeamPermissions(entries[1]),
                               LAMBDA teamPermission : teamPermission.teamName = team.name)
                   ELSE <<>>
    IN IF Len(special) > 0
       THEN Canonical(special[1].permission)
       ELSE Canonical(team.defaultPermission)

AppliesPermission(call, permission) ==
    IF permission = NULL
    THEN call.op = "checkPermissionsForRepoInOrg"
    ELSE call.op = "addOrUpdateRepoPermissionsInOrg" /\ call.permission = permission

\* C6: for every configured team and every live repository, the permission
\* applied is that of the first entry of the repository's teamPermissions
\* whose teamName is the team's name, if the repository has a config entry
\* with one, and the team's defaultPermission otherwise; a special permission
\* of null wins over a default that is not null.
C6_EffectivePermission ==
    (command = "repository-permissions" /\ local.phase = "permissions") =>
        /\ Len(local.teamCalls) = Len(RawTeams)
        /\ \A i \in 1..Len(RawTeams) :
              /\ local.teamCalls[i].repo = local.repo
              /\ local.teamCalls[i].team = RawTeams[i].name
              /\ AppliesPermission(local.teamCalls[i], DocumentedPermission(RawTeams[i], local.repo))

\* a team whose default is admin gets no permission for a repository whose
\* entry sets the team's permission to null
C6_Witness ==
    /\ command = "repository-permissions"
    /\ local.phase = "permissions"
    /\ \E i \in 1..Len(RawTeams) :
          /\ Canonical(RawTeams[i].defaultPermission) = admin
          /\ DocumentedPermission(RawTeams[i], local.repo) = NULL
          /\ local.teamCalls[i].op = "checkPermissionsForRepoInOrg"

----------------------------------------------------------------------------
(* Properties of the choice between the values of the repository and of   *)
(* the organization                                                        *)

HasEntryWith(repositoryName, key) ==
    Len(RawEntries(repositoryName)) > 0 /\ Has(RawEntries(repositoryName)[1], key)

\* the issue templates of a repository as the documentation describes them
DocumentedIssueTemplates(repositoryName) ==
    IF HasEntryWith(repositoryName, "issueTemplates")
    THEN RawEntries(repositoryName)[1].issueTemplates
    ELSE LabelsAt(rawConfig, "issueTemplates")

\* the pull request template of a repository, as a list of one or none
DocumentedPullRequestTemplate(repositoryName) ==
    IF HasEntryWith(repositoryName, "pullRequestTemplate")
    THEN << RawEntries(repositoryName)[1].pullRequestTemplate >>
    ELSE IF Has(rawConfig, "pullRequestTemplate") THEN << rawConfig.pullRequestTemplate >>
    ELSE <<>>

DocumentedTemplateNames(repositoryName) ==
    { DocumentedIssueTemplates(repositoryName)[i].name :
        i \in 1..Len(DocumentedIssueTemplates(repositoryName)) }
    \cup (IF Len(DocumentedPullRequestTemplate(repositoryName)) > 0 THEN {PR_TEMPLATE_NAME} ELSE {})

HasSettingsWithProtectedBranches(object, key) ==
    Has(object, key) /\ Has(object[key], "protectedBranches")

\* the rules of a repository as the documentation describes them
DocumentedProtectedBranches(repositoryName) ==
    IF /\ Len(RawEntries(repositoryName)) > 0
       /\ HasSettingsWithProtectedBranches(RawEntries(repositoryName)[1], "settings")
    THEN RawEntries(repositoryName)[1].settings.protectedBranches
    ELSE IF HasSettingsWithProtectedBranches(rawConfig, "repositorySettings")
    THEN rawConfig.repositorySettings.protectedBranches
    ELSE <<>>

ConfiguresProtectedBranches(repositoryName) ==
    \/ /\ Len(RawEntries(repositoryName)) > 0
       /\ HasSettingsWithProtectedBranches(RawEntries(repositoryName)[1], "settings")
    \/ HasSettingsWithProtectedBranches(rawConfig, "repositorySettings")

StartedCalls == { calls[i].call : i \in { j \in 1..Len(calls) : calls[j].event = "start" } }

\* C7: for issue templates, the pull-request template and the list of
\* protected branches, the value applied to a repository is the value of the
\* repository's entry whenever the entry sets it and the value of the
\* organization otherwise; the two are never combined (a list of the
\* repository replaces the list of the organization entirely).
C7_RepositoryValueWins ==
    /\ (command = "issue-templates" /\ local # Idle) =>
          LET issueTemplates == DocumentedIssueTemplates(local.repo)
              pullRequestTemplate == DocumentedPullRequestTemplate(local.repo)
              chosen == local.configuredTemplates
          IN /\ Len(chosen) = Len(issueTemplates) + Len(pullRequestTemplate)
             /\ \A i \in 1..Len(issueTemplates) :
                   /\ chosen[i].name = issueTemplates[i].name
                   /\ chosen[i].description = issueTemplates[i].description
                   /\ chosen[i].templateFile = dirname(arg.configPath) \o issueTemplates[i].templateFile
             /\ Len(pullRequestTemplate) > 0 =>
                   /\ chosen[Len(chosen)].name = PR_TEMPLATE_NAME
                   /\ chosen[Len(chosen)].templateFile = dirname(arg.configPath) \o pullRequestTemplate[1].templateFile
             /\ \A call \in StartedCalls :
                   (call.repo = local.repo /\ call.op \in {"createFile", "updateFile"}) =>
                        call.name \in DocumentedTemplateNames(local.repo)
    /\ (command = "repository-settings" /\ local # Idle) =>
          LET rules == DocumentedProtectedBranches(local.repo)
              chosen == local.protectedBranchesConfig
          IN /\ chosen.isArray = ConfiguresProtectedBranches(local.repo)
             /\ Len(chosen.rules) = Len(rules)
             /\ \A i \in 1..Len(rules) :
                   /\ DOMAIN chosen.rules[i] = DOMAIN rules[i]
                   /\ \A key \in DOMAIN rules[i] \ {"requireStatusChecks"} :
                         chosen.rules[i][key] = rules[i][key]
             /\ \A i \in 1..Len(local.branchCalls) :
                   (local.branchCalls[i].op = "updateBranchProtection")
                       <=> (\E j \in 1..Len(rules) : rules[j].name = local.branchCalls[i].branch)

\* the entry of the repository and the organization both give issue
\* templates and a pull request template, and those of the entry are chosen
C7_Witness ==
    /\ command = "issue-templates"
    /\ local # Idle
    /\ HasEntryWith(local.repo, "issueTemplates")
    /\ HasEntryWith(local.repo, "pullRequestTemplate")
    /\ Has(rawConfig, "pullRequestTemplate")
    /\ Len(LabelsAt(rawConfig, "issueTemplates")) > 0
    /\ Len(local.configuredTemplates) = 2
    /\ local.configuredTemplates[1].name = feat
    /\ local.configuredTemplates[2].templateFile = <<"etc", "alt", "pr", ".md">>
    /\ \E call \in StartedCalls : call.op = "createFile" /\ call.name = feat

----------------------------------------------------------------------------
(* Properties of the reconciliation *)

MutatingOperations ==
    { "createLabel", "updateLabel", "deleteLabel",
      "addOrUpdateRepoPermissionsInOrg", "removeRepoInOrg",
      "updateBranchProtection", "deleteBranchProtection",
      "createFile", "updateFile", "deleteFile" }

\* no call for the repository has been answered yet: its live state is the
\* one the run found
Untouched(repositoryName) ==
    \A i \in 1..Len(calls) : ~(calls[i].event = "end" /\ calls[i].call.repo = repositoryName)

\* the live labels of the repository are the desired ones
LabelsConverged(repositoryName) ==
    LET desired == DocumentedIssueLabels(repositoryName)
        live == github.labels[repositoryName]
    IN /\ \A i \in 1..Len(desired) : \E j \in 1..Len(live) :
            /\ toLowerCase(live[j].name) = toLowerCase(desired[i].name)
            /\ live[j].color = toLowerCase(desired[i].color)
            /\ DescriptionOrNull(live[j]) = DescriptionOrNull(desired[i])
       /\ \A j \in 1..Len(live) : \E i \in 1..Len(desired) :
            toLowerCase(live[j].name) = toLowerCase(desired[i].name)

\* every configured team has the documented permission for the repository
PermissionsConverged(repositoryName) ==
    \A i \in 1..Len(RawTeams) :
        github.permissions[repositoryName][RawTeams[i].name]
            = DocumentedPermission(RawTeams[i], repositoryName)

\* every branch with a rule has the protection of the rule, every other
\* branch has none
ProtectionsConverged(repositoryName) ==
    LET rules == DocumentedProtectedBranches(repositoryName)
        branches == github.branches[repositoryName]
    IN \A i \in 1..Len(branches) :
         IF \E j \in 1..Len(rules) : rules[j].name = branches[i].name
         THEN LET rule == rules[CHOOSE j \in 1..Len(rules) :
                                    /\ rules[j].name = branches[i].name
                                    /\ \A k \in 1..(j - 1) : rules[k].name # branches[i].name]
              IN /\ branches[i].protected
                 /\ branches[i].protection = protectionConfig(defaultBranchSettings(rule))
         ELSE ~branches[i].protected

\* the templates of the repository are the templates chosen for it, with
\* the text they are to have
TemplatesConverged(repositoryName) ==
    LET desired == configuredTemplates(config, repositoryName)
        live == repoTemplates(github.files[repositoryName])
    IN /\ \A i \in 1..Len(desired) : \E j \in 1..Len(live) :
            /\ live[j].metaData.name = desired[i].name
            /\ live[j].rawFileContent = desired[i].githubTemplateFile
       /\ \A j \in 1..Len(live) : \E i \in 1..Len(desired) :
            live[j].metaData.name = desired[i].name

Converged(repositoryName) ==
    CASE command = "issue-labels" -> LabelsConverged(repositoryName)
      [] command = "repository-permissions" -> PermissionsConverged(repositoryName)
      [] command = "repository-settings" -> ProtectionsConverged(repositoryName)
      [] command = "issue-templates" -> TemplatesConverged(repositoryName)

\* C8: reconciliation is idempotent for every kind of resource (issue
\* labels, team permissions, branch protections, templates): when the live
\* state of a repository already equals the desired state, a run issues no
\* create, update or delete call for that repository.
C8_Idempotent ==
    \A call \in StartedCalls :
        (call.op \in MutatingOperations /\ Untouched(call.repo)) => ~Converged(call.repo)

\* the calls started for the repository whose callback is running
StartedCallsOfRepository == { call \in StartedCalls : call.repo = local.repo }

\* the key of a label is its name without regard to case
LabelKey(name) == toLowerCase(name)

DesiredLabelKeys(repositoryName) ==
    { LabelKey(DocumentedIssueLabels(repositoryName)[i].name) :
        i \in 1..Len(DocumentedIssueLabels(repositoryName)) }

LiveLabelKeys == { LabelKey(local.repoLabels[i].name) : i \in 1..Len(local.repoLabels) }

\* the key of a template is its name
LiveTemplateNames == { local.repoTemplates[i].metaData.name : i \in 1..Len(local.repoTemplates) }

\* C9: in the reconciliation of labels and of templates, no delete call is
\* issued for a live item whose key (the lower-cased name of a label, the
\* name of a template) is the key of a desired item, and no add call is
\* issued for a desired item whose key is the key of a live item that is
\* not being deleted.
C9_NoDeleteOfDesiredNoDuplicateAdd ==
    /\ (command = "issue-labels" /\ local # Idle) =>
          \A call \in StartedCallsOfRepository :
              /\ call.op = "deleteLabel" => LabelKey(call.name) \notin DesiredLabelKeys(local.repo)
              /\ call.op = "createLabel" =>
                    LabelKey(call.name) \notin (LiveLabelKeys \cap DesiredLabelKeys(local.repo))
    /\ (command = "issue-templates" /\ local # Idle) =>
          \A call \in StartedCallsOfRepository :
              /\ call.op = "deleteFile" => call.name \notin DocumentedTemplateNames(local.repo)
              /\ call.op = "createFile" =>
                    call.name \notin (LiveTemplateNames \cap DocumentedTemplateNames(local.repo))

\* a label is added and another deleted while a live label whose name
\* differs from a desired one in case only is kept
C9_Witness ==
    /\ command = "issue-labels"
    /\ local # Idle
    /\ \E call \in StartedCallsOfRepository : call.op = "createLabel"
    /\ \E call \in StartedCallsOfRepository : call.op = "deleteLabel"
    /\ \E i \in 1..Len(local.repoLabels) :
          /\ LabelKey(local.repoLabels[i].name) \in DesiredLabelKeys(local.repo)
          /\ \A j \in 1..Len(DocumentedIssueLabels(local.repo)) :
                DocumentedIssueLabels(local.repo)[j].name # local.repoLabels[i].name

\* the part of the reconciliation a call belongs to
IsDelete(call) == call.op \in {"deleteLabel", "deleteFile"}
IsUpdate(call) == call.op \in {"updateLabel", "updateFile"}
IsAdd(call) == call.op \in {"createLabel", "createFile"}

\* in the log of the calls, nothing of a call of the first kind follows
\* the start of a call of the second kind for the same repository
AllBefore(First(_), Second(_)) ==
    \A i, j \in 1..Len(calls) :
        (/\ i < j
         /\ calls[i].call.repo = calls[j].call.repo
         /\ calls[i].event = "start"
         /\ Second(calls[i].call))
        => ~First(calls[j].call)

\* C10 as stated: within one repository, the reconciliation of labels and
\* of templates deletes first, then updates, then adds: every delete call
\* has completed before the first update call starts, and every update
\* call has completed before the first add call starts.
C10_DeleteUpdateAdd ==
    command \in {"issue-labels", "issue-templates"} =>
        /\ AllBefore(IsDelete, IsUpdate)
        /\ AllBefore(IsDelete, IsAdd)
        /\ AllBefore(IsUpdate, IsAdd)

\* C10 amended: within one repository, the reconciliation of labels adds
\* first, then updates, then deletes, and the reconciliation of templates
\* deletes first, then updates, then adds; in both, every call of a part
\* has completed before the first call of the next part starts.
C10_PartsInOrder ==
    /\ command = "issue-labels" =>
          /\ AllBefore(IsAdd, IsUpdate)
          /\ AllBefore(IsAdd, IsDelete)
          /\ AllBefore(IsUpdate, IsDelete)
    /\ command = "issue-templates" =>
          /\ AllBefore(IsDelete, IsUpdate)
          /\ AllBefore(IsDelete, IsAdd)
          /\ AllBefore(IsUpdate, IsAdd)

\* a label has been added, then one updated, and a delete call has started
C10_Witness ==
    /\ command = "issue-labels"
    /\ \E i, j, k \in 1..Len(calls) :
          /\ i < j /\ j < k
          /\ calls[i].event = "end" /\ IsAdd(calls[i].call)
          /\ calls[j].event = "end" /\ IsUpdate(calls[j].call)
          /\ calls[k].event = "start" /\ IsDelete(calls[k].call)
          /\ calls[i].call.repo = calls[k].call.repo
          /\ calls[j].call.repo = calls[k].call.repo

----------------------------------------------------------------------------
(* Properties of the handling of errors *)

DeleteOperations ==
    {"deleteLabel", "deleteFile", "removeRepoInOrg", "deleteBranchProtection"}

\* this step is the answer to a delete-type call
DeleteAnswered ==
    /\ Len(calls') = Len(calls) + 1
    /\ calls'[Len(calls')].event = "end"
    /\ calls'[Len(calls')].call.op \in DeleteOperations

\* after this step the command goes on reconciling the repository of the call
ReconciliationContinues ==
    /\ pc' = "repositories"
    /\ local' # Idle
    /\ local'.repo = calls'[Len(calls')].call.repo
    /\ error' = error

\* this step raises the error of the call: the callback of the repository
\* is left, by the command's rejection or by the handler of the repository
ErrorRaised == pc' = "failed" \/ local' = Idle

\* C11: for every delete-type call (delete label, delete template file,
\* remove team permission from repository, remove branch protection): an
\* answer of 404 is treated as a success and the reconciliation of the
\* repository continues; an answer of any other error status raises the
\* error.
C11_DeleteNotFoundIsSuccess ==
    [][DeleteAnswered =>
          /\ calls'[Len(calls')].status = 404 => ReconciliationContinues
          /\ calls'[Len(calls')].status \in (ErrorStatuses \cup {422}) \ {404} => ErrorRaised]_vars

\* this step is the answer to a call with an error the command does not
\* expect: any error status but the 404 of a removal or of the check
UnexpectedErrorAnswered ==
    /\ Len(calls') = Len(calls) + 1
    /\ calls'[Len(calls')].event = "end"
    /\ calls'[Len(calls')].status \in ErrorStatuses \cup {422}
    /\ ~ /\ calls'[Len(calls')].status = 404
         /\ calls'[Len(calls')].call.op \in DeleteOperations \cup {"checkPermissionsForRepoInOrg"}

\* after this step the run goes on with the repositories that remain
RunGoesOn ==
    /\ pc' \in {"repositories", "done"}
    /\ pc' = "done" => repoIndex' > Len(allGithubRepositories)

\* C12: in every multi-repository command (issue-labels,
\* repository-permissions, repository-settings, issue-templates), an
\* unexpected API error while reconciling one repository is caught and
\* reported for that repository and every later repository in the list is
\* still processed; the run is not aborted.
C12_ErrorsCaughtPerRepository ==
    [][UnexpectedErrorAnswered => RunGoesOn]_vars

----------------------------------------------------------------------------
(* Properties of the order of the calls in time *)

IsStartOf(i, repositoryName) ==
    calls[i].event = "start" /\ calls[i].call.repo = repositoryName

\* the call started at position i has been answered before position j
AnsweredBetween(i, j) ==
    \E k \in (i + 1)..(j - 1) : calls[k].event = "end" /\ calls[k].call = calls[i].call

\* the position of the repository in the list of the run
PositionOf(repositoryName) ==
    CHOOSE k \in 1..Len(allGithubRepositories) : allGithubRepositories[k].name = repositoryName

TeamPermissionOperations ==
    {"addOrUpdateRepoPermissionsInOrg", "checkPermissionsForRepoInOrg", "removeRepoInOrg"}

TeamPermissionCallsInFlight == { call \in inflight : call.op \in TeamPermissionOperations }

\* C14: at any moment at most one team-repository permission call
\* (add/update, check, remove) is in flight, although the calls for the
\* teams of one repository are dispatched concurrently: every such call
\* waits in the one limiter until no other call is running.
C14_OnePermissionCallInFlight ==
    /\ Cardinality(TeamPermissionCallsInFlight) <= 1
    /\ TeamPermissionCallsInFlight # {} => TeamPermissionCallsInFlight = inflight

\* the calls of two teams were dispatched together; one is in flight and the
\* other waits in the limiter
C14_Witness ==
    /\ command = "repository-permissions"
    /\ local.phase = "permissions"
    /\ Len(local.teamCalls) >= 2
    /\ Cardinality(TeamPermissionCallsInFlight) = 1
    /\ Len(local.queue) > 0
    /\ \E call \in inflight : call = local.teamCalls[1] /\ local.queue[1] = local.teamCalls[2]

----------------------------------------------------------------------------
(* Properties of the calls for the teams *)

\* the number of calls of the operation started for the team and the repository
StartsOf(op, repositoryName, teamName) ==
    Cardinality({ i \in 1..Len(calls) :
                    /\ calls[i].event = "start"
                    /\ calls[i].call.op = op
                    /\ calls[i].call.repo = repositoryName
                    /\ calls[i].call.team = teamName })

\* the positions of the checks for the team and the repository that were
\* answered with the status
ChecksAnswered(status, repositoryName, teamName) ==
    { i \in 1..Len(calls) :
        /\ calls[i].event = "end"
        /\ calls[i].call.op = "checkPermissionsForRepoInOrg"
        /\ calls[i].call.repo = repositoryName
        /\ calls[i].call.team = teamName
        /\ calls[i].status = status }

\* the number of entries of the document's teams with the name whose
\* documented permission for the repository is null, or is not null
TeamEntries(teamName, repositoryName, isNull) ==
    Cardinality({ i \in 1..Len(RawTeams) :
                    /\ RawTeams[i].name = teamName
                    /\ (DocumentedPermission(RawTeams[i], repositoryName) = NULL) = isNull })

\* the callback of the repository has returned
Completed(repositoryName) ==
    \E k \in 1..Len(allGithubRepositories) :
        allGithubRepositories[k].name = repositoryName /\ k < repoIndex

\* C15: for each (configured team, repository) pair: if the effective
\* permission is not null exactly one upsert call is issued; if it is null
\* the existence of a permission is checked and a removal call is issued
\* only if the check reports that a permission exists, so a team without a
\* permission on the repository receives no removal call.
C15_UpsertOrCheckedRemoval ==
    (command = "repository-permissions" /\ config # Nothing) =>
        \A repositoryName \in RepositoryNames, teamName \in TeamNames :
            LET upserts == StartsOf("addOrUpdateRepoPermissionsInOrg", repositoryName, teamName)
                checks == StartsOf("checkPermissionsForRepoInOrg", repositoryName, teamName)
                removals == StartsOf("removeRepoInOrg", repositoryName, teamName)
                found == Cardinality(ChecksAnswered(200, repositoryName, teamName))
            IN /\ upserts <= TeamEntries(teamName, repositoryName, FALSE)
               /\ checks <= TeamEntries(teamName, repositoryName, TRUE)
               /\ removals <= found
               /\ Completed(repositoryName) =>
                     /\ upserts = TeamEntries(teamName, repositoryName, FALSE)
                     /\ checks = TeamEntries(teamName, repositoryName, TRUE)
                     /\ removals = found

\* the first repository is done: one team got its upsert, the other was
\* checked, had no permission and got no removal
C15_Witness ==
    /\ command = "repository-permissions"
    /\ repoIndex > 1
    /\ \E repositoryName \in RepositoryNames, teamName, otherName \in TeamNames :
          /\ Completed(repositoryName)
          /\ ChecksAnswered(404, repositoryName, teamName) # {}
          /\ StartsOf("removeRepoInOrg", repositoryName, teamName) = 0
          /\ StartsOf("addOrUpdateRepoPermissionsInOrg", repositoryName, otherName) = 1

----------------------------------------------------------------------------
(* Properties of the protection of branches *)

\* the number of calls of the operation started for the branch
BranchStarts(op, repositoryName, branchName) ==
    Cardinality({ i \in 1..Len(calls) :
                    /\ calls[i].event = "start"
                    /\ calls[i].call.op = op
                    /\ calls[i].call.repo = repositoryName
                    /\ calls[i].call.branch = branchName })

HasRule(repositoryName, branchName) ==
    \E j \in 1..Len(DocumentedProtectedBranches(repositoryName)) :
        DocumentedProtectedBranches(repositoryName)[j].name = branchName

\* the branch got the one call of its target state and no other
OneCallForTarget(repositoryName, branchName) ==
    IF HasRule(repositoryName, branchName)
    THEN /\ BranchStarts("updateBranchProtection", repositoryName, branchName) = 1
         /\ BranchStarts("deleteBranchProtection", repositoryName, branchName) = 0
    ELSE /\ BranchStarts("updateBranchProtection", repositoryName, branchName) = 0
         /\ BranchStarts("deleteBranchProtection", repositoryName, branchName) = 1

NoCallFor(repositoryName, branchName) ==
    /\ BranchStarts("updateBranchProtection", repositoryName, branchName) = 0
    /\ BranchStarts("deleteBranchProtection", repositoryName, branchName) = 0

RunWithoutErrors == pc = "done" /\ failures = 0

\* C16: for every branch of every processed repository, the target state is
\* protected as desired if the branch name has a rule in the effective list
\* of protected branches and unprotected if it has none: a branch with a
\* rule gets exactly one set-protection call, a branch without a rule gets
\* exactly one remove-protection call, and after a run without errors no
\* branch is left protected that is not configured.
C16_BranchTargets ==
    (command = "repository-settings" /\ config # Nothing) =>
        \A k \in 1..Len(allGithubRepositories) :
            LET repositoryName == allGithubRepositories[k].name
                branches == github.branches[repositoryName]
            IN /\ k < repoIndex =>
                    \A i \in 1..Len(branches) : OneCallForTarget(repositoryName, branches[i].name)
               /\ RunWithoutErrors => ProtectionsConverged(repositoryName)

\* C16, amended: the same for every processed repository for which a list
\* of protected branches is configured, by its entry or by the
\* organization; the branches of a repository for which none is configured
\* get no call.
C16_ConfiguredBranchTargets ==
    (command = "repository-settings" /\ config # Nothing) =>
        \A k \in 1..Len(allGithubRepositories) :
            LET repositoryName == allGithubRepositories[k].name
                branches == github.branches[repositoryName]
            IN IF ConfiguresProtectedBranches(repositoryName)
               THEN /\ k < repoIndex =>
                         \A i \in 1..Len(branches) : OneCallForTarget(repositoryName, branches[i].name)
                    /\ RunWithoutErrors => ProtectionsConverged(repositoryName)
               ELSE \A i \in 1..Len(branches) : NoCallFor(repositoryName, branches[i].name)

\* a run without errors over two repositories: in the first a branch with a
\* rule was protected and a protected branch without a rule lost its
\* protection; the second, for which nothing is configured, keeps its
\* protected branch
C16_Witness ==
    /\ command = "repository-settings"
    /\ RunWithoutErrors
    /\ Len(allGithubRepositories) = 2
    /\ ConfiguresProtectedBranches(svc)
    /\ ~ConfiguresProtectedBranches(other)
    /\ IsProtected(github.branches[other], main)
    /\ \E i \in 1..Len(calls) :
          /\ calls[i].event = "end"
          /\ calls[i].call.op = "deleteBranchProtection"
          /\ calls[i].status = 200
    /\ \E i \in 1..Len(calls) :
          calls[i].event = "end" /\ calls[i].call.op = "updateBranchProtection"

\* the rule of the document that applies to the branch: the first of the
\* effective list with the name of the branch
DocumentedRule(repositoryName, branchName) ==
    LET rules == DocumentedProtectedBranches(repositoryName)
    IN rules[CHOOSE j \in 1..Len(rules) :
                /\ rules[j].name = branchName
                /\ \A k \in 1..(j - 1) : rules[k].name # branchName]

\* every setting of the section of the rule is in the section of the
\* payload under the key GitHub gives it; a section the rule does not have
\* is null in the payload
CarriesSection(rule, section, payload, target, keys) ==
    IF Has(rule, section)
    THEN \A key \in DOMAIN keys :
            Has(rule[section], key) =>
                (Has(payload[target], keys[key]) /\ payload[target][keys[key]] = rule[section][key])
    ELSE payload[target] = nullObject

\* the payload holds the complete protection the rule describes
CarriesRule(rule, payload) ==
    /\ CarriesSection(rule, "requireReviews", payload, "required_pull_request_reviews",
                      [dismissApprovalWhenChanged |-> "dismiss_stale_reviews",
                       requireCodeOwnerReview |-> "require_code_owner_reviews"])
    /\ CarriesSection(rule, "requireStatusChecks", payload, "required_status_checks",
                      [statusChecks |-> "contexts", requireBranchUpToDate |-> "strict"])
    /\ payload.restrictions = nullObject
    /\ Has(rule, "requireLinearHistory") =>
          /\ Has(payload, "required_linear_history")
          /\ payload.required_linear_history = rule.requireLinearHistory

\* C17: the set-protection call for a branch carries the complete desired
\* protection of its rule and depends only on the rule, never on the
\* current protection of the branch: every setting of the rule
\* (requireReviews, requireStatusChecks with its statusChecks as contexts
\* and requireBranchUpToDate, requireLinearHistory) is present in the
\* payload, and every section the rule does not configure is sent as null.
C17_CompleteProtectionPayload ==
    (command = "repository-settings" /\ config # Nothing) =>
        \A call \in StartedCalls :
            call.op = "updateBranchProtection" =>
                CarriesRule(DocumentedRule(call.repo, call.branch), call.protection)

----------------------------------------------------------------------------
(* Properties of the configuration during the run *)

\* the configuration file cannot be read as a document
UnreadableFile ==
    \/ ~arg.exists
    \/ arg.extension \notin {".yml", ".yaml", ".json", ".YML", ".YAML", ".JSON"}
    \/ ~arg.wellFormed

TemplatesAt(object) ==
    { LabelsAt(object, "issueTemplates")[i] : i \in 1..Len(LabelsAt(object, "issueTemplates")) }
    \cup (IF Has(object, "pullRequestTemplate") THEN {object.pullRequestTemplate} ELSE {})

\* every template the document holds, at organization level and in its
\* repository entries
RawTemplates ==
    TemplatesAt(rawConfig) \cup UNION { TemplatesAt(RawRepositories[r]) : r \in 1..Len(RawRepositories) }

\* the file of the template is no '.md' file or is not next to the
\* configuration file
UnusableTemplateFile(template) ==
    \/ template.templateFile[Len(template.templateFile)] # ".md"
    \/ dirname(arg.configPath) \o template.templateFile \notin DOMAIN arg.files

\* the configuration is one that validation has to refuse
InvalidConfiguration ==
    \/ UnreadableFile
    \/ ~Has(rawConfig, "orgName")
    \/ \E permission \in RawPermissionValues : ~Recognised(permission)
    \/ \E label \in RawIssueLabels : ~IsHexColour(label.color)
    \/ SomeRepositorySetsBoth
    \/ command = "issue-templates" /\ \E template \in RawTemplates : UnusableTemplateFile(template)

\* nothing has been asked of GitHub
NoNetworkCallYet ==
    /\ calls = <<>>
    /\ inflight = {}
    /\ allGithubRepositories = <<>>
    /\ local = Idle

C19_ConfigurationReadOnly ==
    config # Nothing => config = configReader(arg, rawConfig).value

\* the names of the teams of the document's teams section
ConfiguredTeamNames == { RawTeams[i].name : i \in 1..Len(RawTeams) }

\* C20: the permissions command only issues team-permission calls
\* (add/update, check, remove) for teams listed in the teams section of the
\* configuration; the repository permissions of every other team of the
\* organization are left unchanged on every repository.
C20_OnlyConfiguredTeams ==
    [][command = "repository-permissions" =>
          /\ \A call \in StartedCalls' :
                call.op \in TeamPermissionOperations => call.team \in ConfiguredTeamNames
          /\ \A repositoryName \in RepositoryNames, teamName \in TeamNames \ ConfiguredTeamNames :
                github'.permissions[repositoryName][teamName]
                    = github.permissions[repositoryName][teamName]]_vars

\* the run is over: a configured team got its permission for svc, and the
\* team Guests of the organization, which the configuration does not list,
\* still has the permission it had
C20_Witness ==
    /\ command = "repository-permissions"
    /\ pc = "done"
    /\ Guests \notin ConfiguredTeamNames
    /\ \E i \in 1..Len(github.teams) : github.teams[i].name = Guests
    /\ github.permissions[svc][Guests] = push
    /\ \E i \in 1..Len(calls) :
          /\ calls[i].event = "end"
          /\ calls[i].call.op = "addOrUpdateRepoPermissionsInOrg"
          /\ calls[i].call.repo = svc
          /\ calls[i].status = 200

----------------------------------------------------------------------------
(* Properties of the removal of collaborators *)

\* the documentation's condition for clearing the collaborators of the
\* repository: the option was passed, and the first entry of the repository,
\* if there is one, does not set clearCollaborators to false
ShouldClearCollaborators(repositoryName) ==
    /\ arg.clearCollaborators
    /\ \/ Len(RawEntries(repositoryName)) = 0
       \/ ~Has(RawEntries(repositoryName)[1], "clearCollaborators")
       \/ RawEntries(repositoryName)[1].clearCollaborators # FALSE

IsRemovalOfCollaborator(i) ==
    calls[i].event = "end" /\ calls[i].call.op = "removeCollaborator"

\* the teams of the repository are being given their permissions, or have been
TeamsReached(repositoryName) ==
    \/ Completed(repositoryName)
    \/ local # Idle /\ local.phase = "permissions" /\ local.repo = repositoryName

\* C21: collaborators of a repository are removed if and only if the option
\* --clear-collaborators was passed and the repository either has no config
\* entry or its entry does not set clearCollaborators to false; without the
\* option no collaborator is ever removed, and when removal happens all
\* removals of the repository have completed before its first
\* team-permission call is issued.
C21_ClearCollaborators ==
    (command = "repository-permissions" /\ config # Nothing) =>
        /\ \A call \in inflight :
              call.op = "removeCollaborator" => ShouldClearCollaborators(call.repo)
        /\ \A i \in 1..Len(calls) :
              IsRemovalOfCollaborator(i) => ShouldClearCollaborators(calls[i].call.repo)
        /\ \A repositoryName \in RepositoryNames :
              (TeamsReached(repositoryName) /\ ShouldClearCollaborators(repositoryName)) =>
                    github.collaborators[repositoryName] = {}
        /\ \A i, j \in 1..Len(calls) :
              (/\ calls[i].event = "start"
               /\ calls[i].call.op \in TeamPermissionOperations
               /\ IsRemovalOfCollaborator(j)
               /\ calls[i].call.repo = calls[j].call.repo) => j < i
        /\ TeamPermissionCallsInFlight # {} =>
              \A call \in inflight : call.op # "removeCollaborator"

\* with the option, the two collaborators of svc were removed before the
\* first call for a team
C21_Witness ==
    /\ command = "repository-permissions"
    /\ arg.clearCollaborators
    /\ \E i, j, k \in 1..Len(calls) :
          /\ i < j /\ j < k
          /\ IsRemovalOfCollaborator(i) /\ calls[i].call.repo = svc /\ calls[i].status = 200
          /\ IsRemovalOfCollaborator(j) /\ calls[j].call.repo = svc /\ calls[j].status = 200
          /\ calls[k].event = "start"
          /\ calls[k].call.op \in TeamPermissionOperations
          /\ calls[k].call.repo = svc
    /\ github.collaborators[svc] = {}

----------------------------------------------------------------------------
(* Properties of the keys of the templates *)

\* every issue template the document holds, at organization level and in
\* its repository entries
RawIssueTemplates ==
    { LabelsAt(rawConfig, "issueTemplates")[i] : i \in 1..Len(LabelsAt(rawConfig, "issueTemplates")) }
    \cup UNION { { LabelsAt(RawRepositories[r], "issueTemplates")[i] :
                     i \in 1..Len(LabelsAt(RawRepositories[r], "issueTemplates")) } :
                 r \in 1..Len(RawRepositories) }

PullRequestTemplatePath == GITHUB_DIR \o PR_TEMPLATE_FILE_NAME

\* the text written by the call is that of an issue template: it has front matter
WritesIssueTemplate(call) == Has(call.content, "metaData")

\* C22: the reconciliation key given to the pull request template is
\* distinct from the name of every issue template that a valid
\* configuration can contain, so a pull request template is never matched
\* with, updated as, or deleted in place of an issue template, and vice
\* versa: the file of the pull request template is written with the text of
\* the pull request template only, and no other file is.
C22_PullRequestTemplateKeyDistinct ==
    (command = "issue-templates" /\ config # Nothing) =>
        /\ \A template \in RawIssueTemplates : template.name # PR_TEMPLATE_NAME
        /\ \A call \in StartedCalls :
              call.op \in {"createFile", "updateFile"} =>
                    (call.path = PullRequestTemplatePath <=> ~WritesIssueTemplate(call))

----------------------------------------------------------------------------
(* Properties of the lookup of the organization and of the teams *)

OrganizationMissing == ~github.orgVisible

\* a team of the document's teams section is not a team of the organization
TeamMissing ==
    /\ command = "repository-permissions"
    /\ \E i \in 1..Len(RawTeams) :
          \A j \in 1..Len(github.teams) : github.teams[j].name # RawTeams[i].name

\* no call that changes anything has been issued for any repository
NoMutatingCall ==
    /\ calls = <<>>
    /\ inflight = {}
    /\ local = Idle

\* C23: if the configured organization, or any team named in the
\* configuration, cannot be found on GitHub, the command terminates with a
\* fatal error and a non-zero exit before any reconciliation begins: no
\* mutating API call (permission write, collaborator removal, change of a
\* label, template or protection) has been issued for any repository.
C23_NotFoundIsFatal ==
    (config # Nothing /\ (OrganizationMissing \/ TeamMissing)) =>
        /\ pc \in {"configured", "failed"}
        /\ pc = "failed" => error # Nothing
        /\ NoMutatingCall

\* the permissions command has failed on a team that the organization,
\* which was found, does not have
C23_Witness ==
    /\ command = "repository-permissions"
    /\ pc = "failed"
    /\ config # Nothing
    /\ ~OrganizationMissing
    /\ TeamMissing
    /\ error.kind = "cannot be found in org"
    /\ NoMutatingCall

----------------------------------------------------------------------------
(* Command transfer-open-issues *)

\* sourceLabelNames.filter(label => destinationLabelNames.includes(label))
transferableLabels(sourceLabelNames, destinationLabelNames) ==
    Filter(sourceLabelNames, LAMBDA label :
        \E i \in 1..Len(destinationLabelNames) : destinationLabelNames[i] = label)

\* sourceRepositoryLabels.filter(label => !transferableLabels.includes(label.name))
nonTransferableLabels(sourceLabelNames, transferable) ==
    Filter(sourceLabelNames, LAMBDA label :
        ~\E i \in 1..Len(transferable) : transferable[i] = label)

\* the labels of the issue that also exist in the destination repository
newIssueLabels(issue, transferable) ==
    Filter(issue.labels, LAMBDA label : \E i \in 1..Len(transferable) : transferable[i] = label)

\* the number GitHub gives to an issue that arrives in the repository
newIssueNumber(issues) == Len(issues) + 1

transferIssueCall(issue, destination) ==
    [op |-> "transferIssue", repo |-> destination, number |-> issue.number]

setLabelsCall(destination, number, labels) ==
    [op |-> "setLabels", repo |-> destination, number |-> number, labels |-> labels]

\* the missing option or repository the command stops at, if any
transferArgumentErrors(options, state) ==
    IF ~Has(options, "org")
    THEN <<Err("options", -1, -1, "org", "No org given!")>>
    ELSE IF ~Has(options, "source")
    THEN <<Err("options", -1, -1, "source", "No source repository given!")>>
    ELSE IF ~Has(options, "destination")
    THEN <<Err("options", -1, -1, "destination", "No destination repository given!")>>
    ELSE IF options.source \notin DOMAIN state.issues
    THEN <<Err("repository", -1, -1, "source", "not found")>>
    ELSE IF options.destination \notin DOMAIN state.issues
    THEN <<Err("repository", -1, -1, "destination", "not found")>>
    ELSE <<>>

\* the options are validated, both repositories are looked up, the open
\* issues of the source and the labels of both are listed; the command
\* returns if there is no issue, and asks for a confirmation if a label of
\* the source does not exist in the destination
TransferOpenIssuesStart ==
    /\ command = "transfer-open-issues"
    /\ pc = "start"
    /\ LET errors == transferArgumentErrors(arg, github) IN
        IF Len(errors) > 0
        THEN /\ pc' = Exit(-1)
             /\ error' = errors[1]
             /\ UNCHANGED local
        ELSE IF Len(github.issues[arg.source]) = 0
        THEN /\ pc' = Exit(0)
             /\ UNCHANGED <<error, local>>
        ELSE LET transferable == transferableLabels(github.labels[arg.source],
                                                    github.labels[arg.destination])
                 lost == nonTransferableLabels(github.labels[arg.source], transferable)
             IN /\ pc' = "issues"
                /\ local' = [phase |-> IF Len(lost) > 0 THEN "prompt" ELSE "transfer",
                             confirmed |-> "not asked",
                             issues |-> github.issues[arg.source],
                             transferableLabels |-> transferable,
                             nonTransferableLabels |-> lost,
                             newIssueNumber |-> 0]
                /\ UNCHANGED error
    /\ UNCHANGED <<arg, ret, allGithubRepositories, command, rawConfig, config, github, repoIndex,
                   inflight, calls, failures>>

\* the command returns on a negative answer to prompt.confirm
TransferOpenIssuesAnswer_failsOnNo ==
    /\ command = "transfer-open-issues"
    /\ pc = "issues"
    /\ local.phase = "prompt"
    /\ \E confirmed \in BOOLEAN :
        IF ~confirmed
        THEN /\ local' = [local EXCEPT !.confirmed = "no", !.phase = "returned"]
             /\ pc' = Exit(-1)
        ELSE /\ local' = [local EXCEPT !.confirmed = "yes", !.phase = "transfer"]
             /\ UNCHANGED pc
    /\ UNCHANGED <<arg, ret, allGithubRepositories, command, rawConfig, config, error, github,
                   repoIndex, inflight, calls, failures>>

\* the user answers prompt.confirm: on a negative answer the command
\* returns, and commandRunner ends the process with exit code 0
TransferOpenIssuesAnswer ==
    /\ command = "transfer-open-issues"
    /\ pc = "issues"
    /\ local.phase = "prompt"
    /\ \E confirmed \in BOOLEAN :
        IF ~confirmed
        THEN /\ local' = [local EXCEPT !.confirmed = "no", !.phase = "returned"]
             /\ pc' = Exit(0)
        ELSE /\ local' = [local EXCEPT !.confirmed = "yes", !.phase = "transfer"]
             /\ UNCHANGED pc
    /\ UNCHANGED <<arg, ret, allGithubRepositories, command, rawConfig, config, error, github,
                   repoIndex, inflight, calls, failures>>

\* asyncSequence takes the next issue: a pull request is skipped, any other
\* issue is transferred; after the last issue the command returns
TransferOpenIssuesNextIssue ==
    /\ command = "transfer-open-issues"
    /\ pc = "issues"
    /\ local.phase = "transfer"
    /\ IF Len(local.issues) = 0
       THEN /\ pc' = Exit(0)
            /\ local' = [local EXCEPT !.phase = "returned"]
            /\ UNCHANGED <<inflight, calls>>
       ELSE IF Head(local.issues).isPullRequest
       THEN /\ local' = [local EXCEPT !.issues = Tail(@)]
            /\ UNCHANGED <<pc, inflight, calls>>
       ELSE /\ local' = [local EXCEPT !.phase = "transferring"]
            /\ inflight' = {transferIssueCall(Head(local.issues), arg.destination)}
            /\ calls' = Append(calls, StartEvent(transferIssueCall(Head(local.issues), arg.destination)))
            /\ UNCHANGED pc
    /\ UNCHANGED <<arg, ret, allGithubRepositories, command, rawConfig, config, error, github,
                   repoIndex, failures>>

\* GitHub has transferred the issue, without its labels: the labels that
\* exist in the destination are set, if there are any
TransferOpenIssuesTransferred ==
    /\ command = "transfer-open-issues"
    /\ pc = "issues"
    /\ local.phase = "transferring"
    /\ \E call \in inflight :
        LET issue == Head(local.issues)
            number == newIssueNumber(github.issues[arg.destination])
            labels == newIssueLabels(issue, local.transferableLabels)
        IN /\ github' = [github EXCEPT
                            !.issues[arg.source] =
                                Filter(@, LAMBDA anyIssue : anyIssue.number # issue.number),
                            !.issues[arg.destination] =
                                Append(@, [issue EXCEPT !.number = number, !.labels = <<>>])]
           /\ IF Len(labels) = 0
              THEN /\ local' = [local EXCEPT !.phase = "transfer", !.issues = Tail(@),
                                             !.newIssueNumber = number]
                   /\ inflight' = {}
                   /\ calls' = Append(calls, EndEvent(call, 200))
              ELSE /\ local' = [local EXCEPT !.phase = "labelling", !.newIssueNumber = number]
                   /\ inflight' = {setLabelsCall(arg.destination, number, labels)}
                   /\ calls' = calls \o << EndEvent(call, 200),
                                          StartEvent(setLabelsCall(arg.destination, number, labels)) >>
    /\ UNCHANGED <<arg, ret, allGithubRepositories, command, rawConfig, config, error, pc,
                   repoIndex, failures>>

\* GitHub has set the labels of the transferred issue
TransferOpenIssuesLabelled ==
    /\ command = "transfer-open-issues"
    /\ pc = "issues"
    /\ local.phase = "labelling"
    /\ \E call \in inflight :
        /\ github' = [github EXCEPT !.issues[arg.destination] =
                        [i \in 1..Len(@) |->
                            IF @[i].number = call.number THEN [@[i] EXCEPT !.labels = call.labels]
                            ELSE @[i]]]
        /\ calls' = Append(calls, EndEvent(call, 200))
    /\ inflight' = {}
    /\ local' = [local EXCEPT !.phase = "transfer", !.issues = Tail(@)]
    /\ UNCHANGED <<arg, ret, allGithubRepositories, command, rawConfig, config, error, pc,
                   repoIndex, failures>>

\* GitHub answers the call in flight with an error: the command rejects
TransferOpenIssuesCallFails ==
    /\ command = "transfer-open-issues"
    /\ pc = "issues"
    /\ failures < MaxFailures
    /\ \E call \in inflight, status \in ErrorStatuses :
        /\ inflight' = inflight \ {call}
        /\ calls' = Append(calls, EndEvent(call, status))
        /\ error' = [where |-> "api", index |-> -1, sub |-> -1, field |-> call.op, kind |-> status]
    /\ failures' = failures + 1
    /\ pc' = Exit(-1)
    /\ UNCHANGED <<arg, ret, allGithubRepositories, command, rawConfig, config, github, repoIndex, local>>

enhancement == <<"e","n","h","a","n","c","e","m","e","n","t">>

Issue(number, labels) == [number |-> number, labels |-> labels, isPullRequest |-> FALSE]
PullRequest(number) == [number |-> number, labels |-> <<>>, isPullRequest |-> TRUE]

\* lists of the open issues of the source repository
IssueLists ==
    { <<>>,
      << Issue(1, <<bug>>) >>,
      << Issue(1, <<>>), Issue(2, <<bug, doc>>) >>,
      << PullRequest(1), Issue(2, <<doc>>), Issue(3, <<bug, enhancement>>) >> }

\* lists of the names of the labels of a repository
LabelNameLists == { <<>>, <<bug>>, <<bug, doc>>, <<Bug, doc, enhancement>> }

\* the options of the command line: complete, with a repository that does
\* not exist, and without one option
TransferCommandLines ==
    { [org |-> orgName, source |-> svc, destination |-> other],
      [org |-> orgName, source |-> svc, destination |-> attic],
      [org |-> orgName, source |-> attic, destination |-> other],
      [source |-> svc, destination |-> other],
      [org |-> orgName, destination |-> other],
      [org |-> orgName, source |-> svc] }

\* the repositories svc and other with their issues and labels
TransferGithubStates ==
    { [ issues |-> [name \in {svc, other} |->
                       IF name = svc THEN issues ELSE << Issue(1, <<bug>>) >>],
        labels |-> [name \in {svc, other} |->
                       IF name = svc THEN sourceLabels ELSE destinationLabels] ] :
        issues \in IssueLists, sourceLabels \in LabelNameLists, destinationLabels \in LabelNameLists }

InitTransfer ==
    /\ arg \in TransferCommandLines
    /\ github \in TransferGithubStates
    /\ ret = Nothing
    /\ pc = "start"
    /\ command = "transfer-open-issues"
    /\ rawConfig = Nothing /\ config = Nothing /\ error = Nothing
    /\ allGithubRepositories = <<>> /\ repoIndex = 0 /\ local = Idle
    /\ inflight = {} /\ calls = <<>> /\ failures = 0

NextTransfer ==
    \/ TransferOpenIssuesStart
    \/ TransferOpenIssuesAnswer
    \/ TransferOpenIssuesNextIssue
    \/ TransferOpenIssuesTransferred
    \/ TransferOpenIssuesLabelled
    \/ TransferOpenIssuesCallFails

SpecTransfer == InitTransfer /\ [][NextTransfer]_vars

\* the labels of the source that the destination does not have
LostLabels ==
    { github.labels[svc][i] : i \in 1..Len(github.labels[svc]) }
    \ { github.labels[other][i] : i \in 1..Len(github.labels[other]) }

\* C24: in transfer-open-issues, when some source label does not exist in
\* the destination repository and the user answers the confirmation prompt
\* negatively, the command returns early without transferring any issue or
\* setting any label, and ends as a success (exit code 0), not as a failure.
C24_NegativeAnswerIsSuccess ==
    (command = "transfer-open-issues" /\ local # Idle /\ local.confirmed = "no") =>
        /\ pc = "done"
        /\ error = Nothing
        /\ calls = <<>>
        /\ inflight = {}
        /\ github.issues[svc] = local.issues
        /\ github.issues[other] = << Issue(1, <<bug>>) >>

\* the user was asked because a label would be lost, and said no
C24_Witness ==
    /\ command = "transfer-open-issues"
    /\ local # Idle
    /\ local.confirmed = "no"
    /\ LostLabels # {}
    /\ Len(github.issues[svc]) > 0
    /\ pc = "done"

----------------------------------------------------------------------------
(* Command add-issues-to-project *)

\* lhs.labels.map(label => label.name)
labelNames(issue) == [i \in 1..Len(issue.labels) |-> issue.labels[i].name]

\* labels.indexOf(name) !== -1
includesLabel(names, name) == \E i \in 1..Len(names) : names[i] = name

\* a comparison by the number of the issue alone
compareIssueLabels_byNumber(lhs, rhs) == lhs.number - rhs.number

compareIssueLabels(lhs, rhs) ==
    LET lhsLabels == labelNames(lhs)
        rhsLabels == labelNames(rhs)
    IN IF includesLabel(lhsLabels, bug) /\ ~includesLabel(rhsLabels, bug) THEN -1
       ELSE IF ~includesLabel(lhsLabels, bug) /\ includesLabel(rhsLabels, bug) THEN 1
       ELSE IF includesLabel(lhsLabels, bug) /\ includesLabel(rhsLabels, bug)
       THEN lhs.number - rhs.number
       ELSE IF Len(lhsLabels) = 0 /\ Len(rhsLabels) > 0 THEN -1
       ELSE IF Len(lhsLabels) > 0 /\ Len(rhsLabels) = 0 THEN 1
       ELSE IF Len(lhsLabels) = 0 /\ Len(rhsLabels) = 0 THEN lhs.number - rhs.number
       ELSE IF includesLabel(lhsLabels, enhancement) /\ ~includesLabel(rhsLabels, enhancement) THEN -1
       ELSE IF ~includesLabel(lhsLabels, enhancement) /\ includesLabel(rhsLabels, enhancement) THEN 1
       ELSE lhs.number - rhs.number

\* Array.prototype.sort with the comparison: a stable sort that places each
\* element before the first element it compares less than
RECURSIVE insertIssue(_, _)
insertIssue(issue, sorted) ==
    IF Len(sorted) = 0 THEN <<issue>>
    ELSE IF compareIssueLabels(issue, sorted[Len(sorted)]) < 0
    THEN Append(insertIssue(issue, SubSeq(sorted, 1, Len(sorted) - 1)), sorted[Len(sorted)])
    ELSE Append(sorted, issue)

RECURSIVE sortIssues(_)
sortIssues(issues) ==
    IF Len(issues) = 0 THEN <<>>
    ELSE insertIssue(issues[Len(issues)], sortIssues(SubSeq(issues, 1, Len(issues) - 1)))

\* the open issues that are no pull requests and have no card in the project
newRepositoryIssues(repositoryIssues, addedIssueUrls) ==
    Filter(repositoryIssues, LAMBDA issue : issue.url \notin addedIssueUrls /\ ~issue.isPullRequest)

\* the missing option, project or column the command stops at, if any
projectArgumentErrors(options, state) ==
    IF ~Has(options, "org")
    THEN <<Err("options", -1, -1, "org", "No org given!")>>
    ELSE IF ~Has(options, "repository")
    THEN <<Err("options", -1, -1, "repository", "No repository given!")>>
    ELSE IF ~Has(options, "project")
    THEN <<Err("options", -1, -1, "project", "No project given!")>>
    ELSE IF ~Has(options, "column")
    THEN <<Err("options", -1, -1, "column", "No column given!")>>
    ELSE IF options.project # state.project
    THEN <<Err("project", -1, -1, "project", "not found")>>
    ELSE IF options.column \notin DOMAIN state.columns
    THEN <<Err("column", -1, -1, "column", "not found")>>
    ELSE <<>>

\* octokit.rest.projects.createCard and octokit.rest.projects.moveCard for
\* the card of an issue
cardCall(op, column, issue) ==
    [op |-> op, repo |-> column, number |-> issue.number]

\* the options are validated, the repository, the project and the column
\* are looked up, the cards and the open issues are listed, and the new
\* issues are sorted
AddIssuesToProjectStart ==
    /\ command = "add-issues-to-project"
    /\ pc = "start"
    /\ LET errors == projectArgumentErrors(arg, github) IN
        IF Len(errors) > 0
        THEN /\ pc' = Exit(-1)
             /\ error' = errors[1]
             /\ UNCHANGED local
        ELSE LET addedIssueUrls ==
                    UNION { { github.columns[name][i] : i \in 1..Len(github.columns[name]) } :
                            name \in DOMAIN github.columns }
                 newIssues == newRepositoryIssues(github.issues, addedIssueUrls)
             IN IF Len(newIssues) = 0
                THEN /\ pc' = Exit(0)
                     /\ UNCHANGED <<error, local>>
                ELSE /\ pc' = "issues"
                     /\ local' = [phase |-> "create", issues |-> sortIssues(newIssues),
                                  sorted |-> sortIssues(newIssues)]
                     /\ UNCHANGED error
    /\ UNCHANGED <<arg, ret, allGithubRepositories, command, rawConfig, config, github, repoIndex,
                   inflight, calls, failures>>

\* asyncSequence takes the next issue and asks for its card; after the last
\* issue the command returns
AddIssuesToProjectNextIssue ==
    /\ command = "add-issues-to-project"
    /\ pc = "issues"
    /\ local.phase = "create"
    /\ IF Len(local.issues) = 0
       THEN /\ pc' = Exit(0)
            /\ local' = [local EXCEPT !.phase = "returned"]
            /\ UNCHANGED <<inflight, calls>>
       ELSE /\ local' = [local EXCEPT !.phase = "creating"]
            /\ inflight' = {cardCall("createCard", arg.column, Head(local.issues))}
            /\ calls' = Append(calls, StartEvent(cardCall("createCard", arg.column, Head(local.issues))))
            /\ UNCHANGED pc
    /\ UNCHANGED <<arg, ret, allGithubRepositories, command, rawConfig, config, error, github,
                   repoIndex, failures>>

\* GitHub has created the card, at the top of the column: the command asks
\* to move it to the bottom
AddIssuesToProjectCardCreated ==
    /\ command = "add-issues-to-project"
    /\ pc = "issues"
    /\ local.phase = "creating"
    /\ \E call \in inflight :
        /\ github' = [github EXCEPT !.columns[arg.column] = <<Head(local.issues).url>> \o @]
        /\ inflight' = {cardCall("moveCard", arg.column, Head(local.issues))}
        /\ calls' = calls \o << EndEvent(call, 200),
                               StartEvent(cardCall("moveCard", arg.column, Head(local.issues))) >>
    /\ local' = [local EXCEPT !.phase = "moving"]
    /\ UNCHANGED <<arg, ret, allGithubRepositories, command, rawConfig, config, error, pc,
                   repoIndex, failures>>

\* GitHub has moved the card to the bottom of the column
AddIssuesToProjectCardMoved ==
    /\ command = "add-issues-to-project"
    /\ pc = "issues"
    /\ local.phase = "moving"
    /\ \E call \in inflight :
        /\ github' = [github EXCEPT !.columns[arg.column] =
                        Filter(@, LAMBDA url : url # Head(local.issues).url)
                        \o <<Head(local.issues).url>>]
        /\ calls' = Append(calls, EndEvent(call, 200))
    /\ inflight' = {}
    /\ local' = [local EXCEPT !.phase = "create", !.issues = Tail(@)]
    /\ UNCHANGED <<arg, ret, allGithubRepositories, command, rawConfig, config, error, pc,
                   repoIndex, failures>>

\* GitHub answers the call in flight with an error: the command rejects
AddIssuesToProjectCallFails ==
    /\ command = "add-issues-to-project"
    /\ pc = "issues"
    /\ failures < MaxFailures
    /\ \E call \in inflight, status \in ErrorStatuses :
        /\ inflight' = inflight \ {call}
        /\ calls' = Append(calls, EndEvent(call, status))
        /\ error' = [where |-> "api", index |-> -1, sub |-> -1, field |-> call.op, kind |-> status]
    /\ failures' = failures + 1
    /\ pc' = Exit(-1)
    /\ UNCHANGED <<arg, ret, allGithubRepositories, command, rawConfig, config, github, repoIndex, local>>

backlog == <<"b","a","c","k","l","o","g">>
roadmap == <<"r","o","a","d","m","a","p">>

\* an open issue of the repository as the API lists it
ProjectIssue(number, names) ==
    [ number |-> number, url |-> <<"issues", number>>, isPullRequest |-> FALSE,
      labels |-> [i \in 1..Len(names) |-> [name |-> names[i]]] ]

\* the labels an issue can have: none, each of the two the order knows, both,
\* and others
IssueLabelings ==
    { <<>>, <<bug>>, <<enhancement>>, <<doc>>, <<enhancement, bug>>, <<doc, enhancement>> }

\* the open issues as the API lists them, newest first
ProjectIssueLists ==
    { << ProjectIssue(3, third), ProjectIssue(2, second), ProjectIssue(1, first) >> :
        first \in IssueLabelings, second \in IssueLabelings, third \in IssueLabelings }
    \cup { <<>>,
           << ProjectIssue(4, <<doc>>), [ProjectIssue(3, <<bug>>) EXCEPT !.isPullRequest = TRUE],
              ProjectIssue(2, <<bug>>), ProjectIssue(1, <<>>) >> }

ProjectCommandLines ==
    { [org |-> orgName, repository |-> svc, project |-> roadmap, column |-> backlog],
      [org |-> orgName, repository |-> svc, project |-> roadmap, column |-> doc],
      [org |-> orgName, repository |-> svc, project |-> old, column |-> backlog],
      [org |-> orgName, repository |-> svc, project |-> roadmap],
      [org |-> orgName, repository |-> svc, column |-> backlog],
      [org |-> orgName, project |-> roadmap, column |-> backlog],
      [repository |-> svc, project |-> roadmap, column |-> backlog] }

InitProject ==
    /\ command = "add-issues-to-project"
    /\ \/ /\ arg = [org |-> orgName, repository |-> svc, project |-> roadmap, column |-> backlog]
          /\ github \in { [project |-> roadmap, issues |-> issues,
                           columns |-> [name \in {backlog, new} |->
                                           IF name = new THEN << <<"issues", 4>> >> ELSE cards]] :
                          issues \in ProjectIssueLists,
                          cards \in { <<>>, << <<"issues", 9>> >> } }
       \/ /\ arg \in ProjectCommandLines
          /\ github = [project |-> roadmap,
                       issues |-> << ProjectIssue(2, <<>>), ProjectIssue(1, <<bug>>) >>,
                       columns |-> [name \in {backlog, new} |-> <<>>]]
    /\ ret = Nothing
    /\ pc = "start"
    /\ rawConfig = Nothing /\ config = Nothing /\ error = Nothing
    /\ allGithubRepositories = <<>> /\ repoIndex = 0 /\ local = Idle
    /\ inflight = {} /\ calls = <<>> /\ failures = 0

NextProject ==
    \/ AddIssuesToProjectStart
    \/ AddIssuesToProjectNextIssue
    \/ AddIssuesToProjectCardCreated
    \/ AddIssuesToProjectCardMoved
    \/ AddIssuesToProjectCallFails

SpecProject == InitProject /\ [][NextProject]_vars

(* Properties of the order of the cards *)

\* the group the documentation sorts an issue into: "bug" label, no label,
\* "enhancement" label, any other labels
DocumentedGroup(issue) ==
    IF \E i \in 1..Len(issue.labels) : issue.labels[i].name = bug THEN 1
    ELSE IF Len(issue.labels) = 0 THEN 2
    ELSE IF \E i \in 1..Len(issue.labels) : issue.labels[i].name = enhancement THEN 3
    ELSE 4

\* the documented order: by group, and by ascending number within a group
DocumentedBefore(lhs, rhs) ==
    \/ DocumentedGroup(lhs) < DocumentedGroup(rhs)
    \/ DocumentedGroup(lhs) = DocumentedGroup(rhs) /\ lhs.number < rhs.number

Sign(n) == IF n < 0 THEN -1 ELSE IF n > 0 THEN 1 ELSE 0

OpenIssues == { github.issues[i] : i \in 1..Len(github.issues) }

IssueNumbered(number) == CHOOSE issue \in OpenIssues : issue.number = number

\* the positions of the log at which a card is asked for
CreateCardStarts ==
    { i \in 1..Len(calls) : calls[i].event = "start" /\ calls[i].call.op = "createCard" }

\* C25: add-issues-to-project creates the cards in the documented order
\* (issues with the "bug" label, then issues without label, then issues with
\* the "enhancement" label, then issues with other labels only, and by
\* ascending number within a group), and compareIssueLabels is a consistent
\* total preorder realising that order: its sign is antisymmetric, it is
\* transitive, and it is negative exactly for the pairs in documented order.
C25_CardsInDocumentedOrder ==
    command = "add-issues-to-project" =>
        /\ \A lhs \in OpenIssues, rhs \in OpenIssues :
            /\ Sign(compareIssueLabels(lhs, rhs)) = - Sign(compareIssueLabels(rhs, lhs))
            /\ compareIssueLabels(lhs, rhs) < 0 <=> DocumentedBefore(lhs, rhs)
        /\ \A lhs \in OpenIssues, mid \in OpenIssues, rhs \in OpenIssues :
            (compareIssueLabels(lhs, mid) <= 0 /\ compareIssueLabels(mid, rhs) <= 0)
                => compareIssueLabels(lhs, rhs) <= 0
        /\ \A i \in CreateCardStarts, j \in CreateCardStarts :
            i < j => DocumentedBefore(IssueNumbered(calls[i].call.number),
                                      IssueNumbered(calls[j].call.number))
        /\ (local # Idle /\ local.phase = "returned") =>
            LET cards == github.columns[arg.column]
                added == Len(local.sorted)
            IN /\ Len(cards) >= added
               /\ \A k \in 1..added : cards[Len(cards) - added + k] = local.sorted[k].url
               /\ \A k \in 1..added, l \in 1..added :
                    k < l => DocumentedBefore(local.sorted[k], local.sorted[l])

\* three cards were added, of issues that the API listed in another order
\* and that belong to three different groups
C25_Witness ==
    /\ command = "add-issues-to-project"
    /\ local # Idle
    /\ local.phase = "returned"
    /\ Cardinality(CreateCardStarts) = 3
    /\ Cardinality({ DocumentedGroup(local.sorted[k]) : k \in 1..3 }) = 3
    /\ local.sorted[1].number > local.sorted[2].number

----------------------------------------------------------------------------
(* Properties of the result of the reconciliation of the labels *)

\* no call for the repository was answered with an error
WithoutApiError(repositoryName) ==
    \A i \in 1..Len(calls) :
        (calls[i].event = "end" /\ calls[i].call.repo = repositoryName) => calls[i].status = 200

\* C26: after the reconciliation of the labels of a repository has completed
\* without an API error, the live labels of the repository are the desired
\* ones: every desired label exists (names compared without regard to case)
\* with the desired colour in lower case and the desired description, and no
\* live label is left whose name is the name of no desired label.
C26_LabelsConverge ==
    (command = "issue-labels" /\ config # Nothing) =>
        \A repositoryName \in RepositoryNames :
            (Completed(repositoryName) /\ WithoutApiError(repositoryName))
                => LabelsConverged(repositoryName)

----------------------------------------------------------------------------
(* Properties of the comparison of the keys *)

LowerCased(names) == { toLowerCase(name) : name \in names }

\* a live label and a desired label are the same item if their names are
\* equal without regard to case
LabelsMatchedIgnoringCase ==
    (command = "issue-labels" /\ local # Idle) =>
        /\ \A call \in StartedCallsOfRepository :
            /\ call.op = "deleteLabel" => LabelKey(call.name) \notin DesiredLabelKeys(local.repo)
            /\ call.op = "updateLabel" => LabelKey(call.current_name) \in DesiredLabelKeys(local.repo)
            /\ call.op = "createLabel" => LabelKey(call.name) \notin LiveLabelKeys
        /\ local.part > 1 =>
            \A i \in 1..Len(DocumentedIssueLabels(local.repo)) :
                LabelKey(DocumentedIssueLabels(local.repo)[i].name) \notin LiveLabelKeys
                    => \E call \in StartedCallsOfRepository :
                          /\ call.op = "createLabel"
                          /\ call.name = DocumentedIssueLabels(local.repo)[i].name

\* a live template and a desired template are the same item if their names
\* are equal without regard to case
TemplatesMatchedIgnoringCase ==
    (command = "issue-templates" /\ local # Idle) =>
        \A call \in StartedCallsOfRepository :
            /\ call.op = "deleteFile" =>
                  toLowerCase(call.name) \notin LowerCased(DocumentedTemplateNames(local.repo))
            /\ call.op = "createFile" =>
                  toLowerCase(call.name) \notin LowerCased(LiveTemplateNames)

\* a live template and a desired template are the same item if their names
\* are equal: a live template with another name is deleted
TemplatesMatchedExactly ==
    (command = "issue-templates" /\ local # Idle) =>
        /\ \A call \in StartedCallsOfRepository :
            /\ call.op = "deleteFile" => call.name \notin DocumentedTemplateNames(local.repo)
            /\ call.op = "updateFile" => call.name \in DocumentedTemplateNames(local.repo)
            /\ call.op = "createFile" => call.name \notin LiveTemplateNames
        /\ local.part > 1 =>
            \A name \in LiveTemplateNames \ DocumentedTemplateNames(local.repo) :
                \E call \in StartedCallsOfRepository : call.op = "deleteFile" /\ call.name = name

\* a branch has a rule if the name of a rule is the name of the branch
BranchesMatchedExactly ==
    (command = "repository-settings" /\ config # Nothing) =>
        \A call \in StartedCalls :
            LET rules == DocumentedProtectedBranches(call.repo)
                hasRule == \E i \in 1..Len(rules) : rules[i].name = call.branch
            IN /\ call.op = "updateBranchProtection" => hasRule
               /\ call.op = "deleteBranchProtection" => ~hasRule

\* a configured team is the team of the organization that has its name
TeamsMatchedExactly ==
    (command = "repository-permissions" /\ config # Nothing) =>
        /\ (\E i \in 1..Len(RawTeams) :
                \A j \in 1..Len(github.teams) : github.teams[j].name # RawTeams[i].name)
              => \A call \in StartedCalls : call.op \notin TeamPermissionOperations
        /\ \A call \in StartedCalls :
              call.op \in TeamPermissionOperations =>
                  \E i \in 1..Len(RawTeams), j \in 1..Len(github.teams) :
                      /\ github.teams[j].name = RawTeams[i].name
                      /\ github.teams[j].slug = call.team

\* C27 as stated: when desired items are matched to live items, the keys are
\* compared without regard to case for labels and for templates and exactly
\* for branch names and team names; a live label or template whose name
\* differs from a desired one in case only is the same item and is never
\* deleted and added again.
C27_KeysIgnoringCaseForLabelsAndTemplates ==
    /\ LabelsMatchedIgnoringCase
    /\ TemplatesMatchedIgnoringCase
    /\ BranchesMatchedExactly
    /\ TeamsMatchedExactly

\* C27 (amended): the keys are compared without regard to case for labels,
\* and exactly for template names, branch names and team names; a live label
\* whose name differs from a desired one in case only is the same item and
\* is never deleted and added again.
C27_KeysIgnoringCaseForLabelsOnly ==
    /\ LabelsMatchedIgnoringCase
    /\ TemplatesMatchedExactly
    /\ BranchesMatchedExactly
    /\ TeamsMatchedExactly

\* a live template whose name differs from the desired one in case only has
\* been deleted and the desired one is added
C27_Witness ==
    /\ command = "issue-templates"
    /\ local # Idle
    /\ \E deleted \in StartedCallsOfRepository, added \in StartedCallsOfRepository :
        /\ deleted.op = "deleteFile"
        /\ added.op = "createFile"
        /\ deleted.name # added.name
        /\ toLowerCase(deleted.name) = toLowerCase(added.name)

----------------------------------------------------------------------------
(* Properties of the validation of requireLinearHistory *)

\* the lists of rules of the document: that of repositorySettings and those
\* of the settings of the repositories, with their breadcrumbs
RawRuleLists ==
    (IF HasSettingsWithProtectedBranches(rawConfig, "repositorySettings")
     THEN { [breadcrumb |-> "repositorySettings",
             rules |-> rawConfig.repositorySettings.protectedBranches] }
     ELSE {})
    \cup
    { [breadcrumb |-> "repository", rules |-> RawRepositories[i].settings.protectedBranches] :
        i \in { j \in 1..Len(RawRepositories) :
                    HasSettingsWithProtectedBranches(RawRepositories[j], "settings") } }

\* the rule has a requireLinearHistory that is no boolean
LinearHistoryNotBoolean(rule) ==
    Has(rule, "requireLinearHistory") /\ rule.requireLinearHistory.typeof # "boolean"

NamesLinearHistory(errors) ==
    \E i \in 1..Len(errors) : errors[i].field = "requireLinearHistory"

\* C28: the validation of a rule of protectedBranches treats
\* requireLinearHistory as an optional boolean at both levels
\* (repositorySettings and the settings of a repository): a rule with
\* requireLinearHistory true or false and a rule without it are accepted, and
\* a rule whose requireLinearHistory is no boolean is rejected with an error
\* that names the field.
C28_RequireLinearHistoryOptionalBoolean ==
    (command = "repository-settings" /\ arg = CommandLine(FALSE)) =>
        /\ \A list \in RawRuleLists :
            NamesLinearHistory(validateRawConfig(list.rules, list.breadcrumb))
                <=> \E i \in 1..Len(list.rules) : LinearHistoryNotBoolean(list.rules[i])
        /\ \A list \in RawRuleLists :
            NamesLinearHistory(validateRepositorySettings([protectedBranches |-> list.rules],
                                                          list.breadcrumb))
                <=> \E i \in 1..Len(list.rules) : LinearHistoryNotBoolean(list.rules[i])
        /\ (\E list \in RawRuleLists :
                \E i \in 1..Len(list.rules) : LinearHistoryNotBoolean(list.rules[i]))
              => config = Nothing
        /\ (error # Nothing /\ error.field = "requireLinearHistory")
              => \E list \in RawRuleLists :
                    \E i \in 1..Len(list.rules) : LinearHistoryNotBoolean(list.rules[i])

----------------------------------------------------------------------------
(* Properties of the file paths of added templates *)

\* the live templates of the repository that the run keeps
KeptRepoTemplates ==
    { local.repoTemplates[i] :
        i \in { j \in 1..Len(local.repoTemplates) :
                    local.repoTemplates[j].metaData.name \in DocumentedTemplateNames(local.repo) } }

\* the positions of the log at which a template is added to the repository
AddStarts ==
    { i \in 1..Len(calls) :
        /\ calls[i].event = "start"
        /\ calls[i].call.op = "createFile"
        /\ calls[i].call.repo = local.repo }

\* C29: every template that is added to a repository is written to a file
\* path that is occupied neither by a live template the run keeps nor by
\* another template added in the same run, so that adding a template never
\* overwrites or collides with the file of a different template.
C29_AddedTemplatesHaveFreePaths ==
    (command = "issue-templates" /\ local # Idle) =>
        /\ \A i \in AddStarts : \A kept \in KeptRepoTemplates :
            calls[i].call.path # kept.githubPath
        /\ \A i \in AddStarts, j \in AddStarts :
            i # j => calls[i].call.path # calls[j].call.path

----------------------------------------------------------------------------
(* Properties of the update of a label *)

\* the desired label that has the name of the live label, case aside
DesiredLabelOf(repositoryName, liveLabel) ==
    LET desired == DocumentedIssueLabels(repositoryName)
    IN desired[CHOOSE i \in 1..Len(desired) :
                /\ LabelKey(desired[i].name) = LabelKey(liveLabel.name)
                /\ \A j \in 1..(i - 1) : LabelKey(desired[j].name) # LabelKey(liveLabel.name)]

\* the update is addressed to a live label by its current name and sends
\* that name back
KeepsName(call) ==
    /\ call.name = call.current_name
    /\ \E i \in 1..Len(local.repoLabels) : local.repoLabels[i].name = call.current_name
    /\ DOMAIN call = {"op", "repo", "current_name", "name", "description", "color"}

\* the description or the colour of the desired label is not that of the
\* live label
DiffersFromLive(call) ==
    \A i \in 1..Len(local.repoLabels) :
        local.repoLabels[i].name = call.current_name =>
            LET live == local.repoLabels[i]
                desired == DesiredLabelOf(local.repo, live)
            IN \/ DescriptionOrNull(desired) # DescriptionOrNull(live)
               \/ toLowerCase(desired.color) # toLowerCase(live.color)

\* C30: a call that updates a label never renames it: it is addressed to the
\* current name of the live label and sends that same name back, changing
\* only the colour and the description, and it is issued only when the
\* desired description (a missing or empty one counting as none) or the
\* desired colour differs from the live one.
C30_UpdateKeepsNameAndIsNeeded ==
    (command = "issue-labels" /\ local # Idle) =>
        \A call \in StartedCallsOfRepository :
            call.op = "updateLabel" => (KeepsName(call) /\ DiffersFromLive(call))

====
